---------------------------- MODULE Spec2Model ----------------------------
(***************************************************************************)
(* Automation core of the 10X.in browser extension.                        *)
(*                                                                         *)
(*   TaskPlanner    (src/background.js)                 createPlan,        *)
(*                  execute, cancel                                        *)
(*   WorkflowEngine (src/core/workflow/workflow-engine.js)  execute,       *)
(*                  executeStep, cancel, updateStatistics                  *)
(*                                                                         *)
(* JavaScript runs one handler at a time and a handler gives up control    *)
(* only at an await.  `turn` names the execute() call that is running      *)
(* synchronously (0: the event loop is idle, so a new call, a cancel() or  *)
(* the settling of an awaited promise may run).  Every assignment of the   *)
(* source is one step of the model, so each status a step or plan passes   *)
(* through is a state; while turn # 0 only that call can move.             *)
(*                                                                         *)
(* The planner and the engine are separate objects that share no state; a  *)
(* behaviour exercises one of them (`component`).                          *)
(***************************************************************************)
EXTENDS Integers, Sequences, FiniteSets, TLC

VARIABLES
  component,        \* the object this behaviour drives: "planner",
                    \* "workflow", "steps", "condition", "selector",
                    \* "findAll", "intent", "socket" or "scraper"
  turn,             \* id of the execute() call running synchronously, 0 if none
  \* ---- TaskPlanner
  plans,            \* the Plan objects created so far (createPlan)
  activePlan,       \* this.activePlan: index into plans, 0 = null
  execs,            \* the calls of TaskPlanner.execute made so far
  executionHistory, \* this.executionHistory
  onStepComplete,   \* this.onStepComplete: "null" until onProgress is called
  progressCalls,    \* history: the calls of the progress callback
  \* ---- WorkflowEngine
  workflows,        \* this.workflows
  activeWorkflow,   \* this.activeWorkflow: index into wexecs, 0 = null
  wexecs,           \* the calls of WorkflowEngine.execute made so far
  \* ---- WorkflowEngine, nested steps and variables
  executions,       \* the execution objects made by execute, with their variables
  executionContext, \* this.executionContext
  \* ---- WorkflowEngine.evaluateCondition
  condition,        \* the argument, and the variables it is resolved with
  conditionResult,  \* what evaluateCondition returned
  \* ---- SelectorEngine
  cache,            \* this.cache: the entries, each with its key
  learningData,     \* this.learningData: the record of each hostname
  connected,        \* the elements that are in the document
  now,              \* Date.now(), in hours
  finds,            \* the calls of SelectorEngine.find made so far
  allFound,         \* the last call of SelectorEngine.findAll
  \* ---- IntentParser
  waitCall,         \* the last WAIT command given to extractParameters
  \* ---- background worker: the WebSocket connection
  socket,           \* ws, isConnected, reconnectAttempts, reconnectTimeout,
                    \* and the timers and closing sockets of the browser
  \* ---- AutoScraper
  tableCall,        \* the last table given to findTables and extractTable
  \* ---- WorkflowEngine.resolveValue
  resolveCall,      \* the last value given to resolveValue, and the context
  \* ---- background worker: the messages for the WebSocket
  outbox            \* pendingCommands, and what was given to ws.send

progressVars == <<onStepComplete, progressCalls>>
plannerVars == <<plans, activePlan, execs, executionHistory, progressVars>>
engineVars  == <<workflows, activeWorkflow, wexecs>>
stepsVars   == <<executions, executionContext>>
conditionVars == <<condition, conditionResult>>
selectorVars == <<cache, learningData, connected, now, finds>>
laterVars   == <<allFound, waitCall, socket, tableCall, resolveCall, outbox>>
otherVars   == <<stepsVars, conditionVars, selectorVars, laterVars>>
vars == <<component, turn, plans, activePlan, execs, executionHistory,
          onStepComplete, progressCalls,
          workflows, activeWorkflow, wexecs, executions, executionContext,
          condition, conditionResult, cache, learningData, connected, now,
          finds, allFound, waitCall, socket, tableCall, resolveCall, outbox>>

----------------------------------------------------------------------------
(* Bounds of the model *)

MaxPlans == 2        \* Plan objects created in one behaviour
MaxSteps == 2        \* steps of a plan / of a workflow
MaxExec == 2         \* calls of TaskPlanner.execute in one behaviour
MaxWorkflows == 1    \* workflows created in one behaviour
MaxWfExec == 2       \* calls of WorkflowEngine.execute in one behaviour

(* Program constants *)

stepTimeout == 30000            \* TaskPlanner.stepTimeout
wfDefaultStepTimeout == 30000   \* WorkflowEngine.executeStep default

SeqsUpTo(S, n) == UNION {[1..k -> S] : k \in 0..n}

----------------------------------------------------------------------------
(* Steps as the planner's generators make them.  Two of the step shapes of *)
(* planClick: required and without a timeout, optional and with one.       *)
(* timeout = 0 stands for an absent timeout field (both are falsy in       *)
(* `step.timeout || this.stepTimeout`).                                    *)

StepTemplates ==
  { [action |-> "findElement",    optional |-> FALSE, timeout |-> 0],
    [action |-> "waitForSettled", optional |-> TRUE,  timeout |-> 3000] }

Actions == {t.action : t \in StepTemplates}

(* The executors maps a caller passes: one with every action, and the      *)
(* default `executors = {}`.                                               *)
ExecutorMaps == {Actions, {}}

(* What a call of an executor can do: throw before returning a promise, or *)
(* return a promise that resolves, rejects, or is still unsettled when the *)
(* timer of withTimeout fires.                                             *)
ExecutorError == "executor failed"
TimeoutError == "Step timeout"
CallbackError == "callback failed"

(* When the promise an executor returned settles, in ms after the call:    *)
(* before every deadline, between a step's own timeout and the default,    *)
(* and after the default.                                                  *)
SettleTimes == {1000, 10000, 40000}

(* withTimeout: Promise.race of the executor's promise and a timer that    *)
(* rejects after ms                                                        *)
RaceWinner(settleAt, ms) == IF settleAt < ms THEN "executor" ELSE "timer"


----------------------------------------------------------------------------
(*                               TaskPlanner                               *)

(* createPlan: the metadata every step gets (index is 0-based). *)
NewStep(t, idx) ==
  [action |-> t.action, optional |-> t.optional, timeout |-> t.timeout,
   index |-> idx, status |-> "pending", result |-> "null", error |-> "null"]

NewPlan(tpls) ==
  [status |-> "created",
   steps  |-> [k \in 1..Len(tpls) |-> NewStep(tpls[k], k - 1)],
   error  |-> "null",
   runs   |-> 0]                 \* history: calls of execute(plan) so far

(* One call of execute(plan, executors).  pc is the place in the body:     *)
(*   loop     head of `for (const step of plan.steps)`, i the next step    *)
(*   call     step.status = 'running' done, executor lookup and call next  *)
(*   await    suspended in `await this.withTimeout(...)`                   *)
(*   resolved the awaited promise resolved                                 *)
(*   catch    in the inner catch, err the error's message                  *)
(*   finish   after the loop                                               *)
(*   done     returned the plan;  rejected: the async call rejected        *)
(* invoked, started, cancelSeen and startStatus are history: executors     *)
(* called, steps set running, whether cancel() hit the plan during the     *)
(* call, and the plan's status when the call was made.                     *)
NewExec(p, ex, st) ==
  [pc |-> "loop", plan |-> p, i |-> 1, executors |-> ex, err |-> "null",
   deadline |-> 0, settleAt |-> 0, invoked |-> 0, started |-> 0,
   cancelSeen |-> FALSE, startStatus |-> st, returned |-> 0]

ExecIds == 1..Len(execs)
PlanIds == 1..Len(plans)
CurStep(e) == plans[execs[e].plan].steps[execs[e].i]

LoopCancelled_Never(plan) == FALSE

(* line 2059 *)
LoopCancelled(plan) == plan.status = "cancelled"

(* line 2064 *)
SkipBefore(step) == step.optional /\ step.status = "skipped"

(* line 2075 *)
NoExecutorMessage(action) == "No executor for action: " \o action

StepDeadline_DefaultOnly(step) == stepTimeout

(* line 2088 *)
StepDeadline(step) == IF step.timeout # 0 THEN step.timeout ELSE stepTimeout

StepFailStatus_AlwaysSkipped(step) == "skipped"

(* line 2104 *)
StepFailStatus(step) == IF step.optional THEN "skipped" ELSE "failed"

FailBreaks_Never(step) == FALSE

(* lines 2107-2111: a failed required step fails the plan and leaves the loop *)
FailBreaks(step) == ~step.optional

(* line 2109 *)
PlanErrorMessage(step, msg) ==
  "Step " \o ToString(step.index + 1) \o " failed: " \o msg

PlanStatusAtEnd_Keeps(status) == status

(* lines 2115-2117 *)
PlanStatusAtEnd(status) == IF status = "running" THEN "completed" ELSE status

(* createPlan(parsedIntent, context): a fresh plan, which becomes activePlan *)
CreatePlan(tpls) ==
  /\ component = "planner" /\ turn = 0
  /\ Len(plans) < MaxPlans
  /\ plans' = Append(plans, NewPlan(tpls))
  /\ activePlan' = Len(plans) + 1
  /\ UNCHANGED <<component, turn, execs, executionHistory, progressVars,
                 engineVars, otherVars>>

(* execute(plan, executors), lines 2045-2054: runs up to the loop head *)
ExecuteCall(p, ex) ==
  /\ component = "planner" /\ turn = 0
  /\ Len(execs) < MaxExec
  /\ p \in PlanIds
  /\ execs' = Append(execs, NewExec(p, ex, plans[p].status))
  /\ plans' = [plans EXCEPT ![p].status = "running", ![p].runs = @ + 1]
  /\ turn' = Len(execs) + 1
  /\ UNCHANGED <<component, activePlan, executionHistory, progressVars,
                 engineVars, otherVars>>

(* lines 2057-2069: the loop head *)
LoopHead(e) ==
  /\ component = "planner" /\ turn = e /\ e \in ExecIds /\ execs[e].pc = "loop"
  /\ LET p == execs[e].plan
         plan == plans[p]
     IN IF execs[e].i > Len(plan.steps) \/ LoopCancelled(plan)
          THEN /\ execs' = [execs EXCEPT ![e].pc = "finish"]
               /\ UNCHANGED plans
          ELSE IF SkipBefore(plan.steps[execs[e].i])
            THEN /\ execs' = [execs EXCEPT ![e].i = @ + 1]
                 /\ UNCHANGED plans
            ELSE /\ plans' = [plans EXCEPT ![p].steps[execs[e].i].status = "running"]
                 /\ execs' = [execs EXCEPT ![e].pc = "call", ![e].started = @ + 1]
  /\ UNCHANGED <<component, turn, activePlan, executionHistory, progressVars,
                 engineVars, otherVars>>

(* lines 2073-2076: no executor for the action: throw into the inner catch *)
CallMissing(e) ==
  /\ component = "planner" /\ turn = e /\ e \in ExecIds /\ execs[e].pc = "call"
  /\ CurStep(e).action \notin execs[e].executors
  /\ execs' = [execs EXCEPT ![e].pc = "catch",
                            ![e].err = NoExecutorMessage(CurStep(e).action)]
  /\ UNCHANGED <<component, turn, plans, activePlan, executionHistory, progressVars,
                 engineVars, otherVars>>

(* lines 2086-2089: executor(step, stepContext) throws before returning *)
CallThrows(e) ==
  /\ component = "planner" /\ turn = e /\ e \in ExecIds /\ execs[e].pc = "call"
  /\ CurStep(e).action \in execs[e].executors
  /\ execs' = [execs EXCEPT ![e].pc = "catch", ![e].err = ExecutorError,
                            ![e].invoked = @ + 1]
  /\ UNCHANGED <<component, turn, plans, activePlan, executionHistory, progressVars,
                 engineVars, otherVars>>

(* lines 2086-2089: the executor returns a promise; the call suspends in   *)
(* the await of the race with the timer                                    *)
CallAwaits(e, t) ==
  /\ component = "planner" /\ turn = e /\ e \in ExecIds /\ execs[e].pc = "call"
  /\ CurStep(e).action \in execs[e].executors
  /\ execs' = [execs EXCEPT ![e].pc = "await", ![e].invoked = @ + 1,
                            ![e].settleAt = t,
                            ![e].deadline = StepDeadline(CurStep(e))]
  /\ turn' = 0
  /\ UNCHANGED <<component, plans, activePlan, executionHistory, progressVars,
                 engineVars, otherVars>>

(* withTimeout, lines 2191-2198: the race settles *)
SettleResolve(e) ==
  /\ component = "planner" /\ turn = 0 /\ e \in ExecIds /\ execs[e].pc = "await"
  /\ RaceWinner(execs[e].settleAt, execs[e].deadline) = "executor"
  /\ execs' = [execs EXCEPT ![e].pc = "resolved", ![e].settleAt = 0,
                            ![e].deadline = 0]
  /\ turn' = e
  /\ UNCHANGED <<component, plans, activePlan, executionHistory, progressVars,
                 engineVars, otherVars>>

SettleReject(e) ==
  /\ component = "planner" /\ turn = 0 /\ e \in ExecIds /\ execs[e].pc = "await"
  /\ RaceWinner(execs[e].settleAt, execs[e].deadline) = "executor"
  /\ execs' = [execs EXCEPT ![e].pc = "catch", ![e].err = ExecutorError,
                            ![e].settleAt = 0, ![e].deadline = 0]
  /\ turn' = e
  /\ UNCHANGED <<component, plans, activePlan, executionHistory, progressVars,
                 engineVars, otherVars>>

TimeoutOutcome(e) ==
  [execs[e] EXCEPT !.pc = "catch", !.err = TimeoutError,
                   !.settleAt = 0, !.deadline = 0]

SettleTimeout(e) ==
  /\ component = "planner" /\ turn = 0 /\ e \in ExecIds /\ execs[e].pc = "await"
  /\ RaceWinner(execs[e].settleAt, execs[e].deadline) = "timer"
  /\ execs' = [execs EXCEPT ![e] = TimeoutOutcome(e)]
  /\ turn' = e
  /\ UNCHANGED <<component, plans, activePlan, executionHistory, progressVars,
                 engineVars, otherVars>>

(* lines 2091-2100; `this.onStepComplete?.(step, plan)` of line 2100 is in  *)
(* the try of line 2071: a callback that throws lands in the inner catch   *)
StepResolved(e) ==
  /\ component = "planner" /\ turn = e /\ e \in ExecIds /\ execs[e].pc = "resolved"
  /\ plans' = [plans EXCEPT ![execs[e].plan].steps[execs[e].i] =
                 [@ EXCEPT !.result = "ok", !.status = "completed"]]
  /\ progressCalls' =
       IF onStepComplete = "null" THEN progressCalls
       ELSE Append(progressCalls,
                   [plan |-> execs[e].plan, index |-> execs[e].i - 1,
                    status |-> "completed"])
  /\ execs' = IF onStepComplete = "throws"
                THEN [execs EXCEPT ![e].pc = "catch", ![e].err = CallbackError]
                ELSE [execs EXCEPT ![e].pc = "loop", ![e].i = @ + 1]
  /\ UNCHANGED <<component, turn, activePlan, executionHistory, onStepComplete,
                 engineVars, otherVars>>

(* lines 2102-2112 *)
StepCatch(e) ==
  /\ component = "planner" /\ turn = e /\ e \in ExecIds /\ execs[e].pc = "catch"
  /\ LET p == execs[e].plan
         i == execs[e].i
         step == plans[p].steps[i]
         failed == [step EXCEPT !.error = execs[e].err,
                                !.status = StepFailStatus(step)]
     IN IF FailBreaks(step)
          THEN /\ plans' = [plans EXCEPT ![p].steps[i] = failed,
                                         ![p].status = "failed",
                                         ![p].error = PlanErrorMessage(step, execs[e].err)]
               /\ execs' = [execs EXCEPT ![e].pc = "finish"]
          ELSE /\ plans' = [plans EXCEPT ![p].steps[i] = failed]
               /\ execs' = [execs EXCEPT ![e].pc = "loop", ![e].i = @ + 1]
  /\ UNCHANGED <<component, turn, activePlan, executionHistory, progressVars,
                 engineVars, otherVars>>

CompletedSteps(plan) ==
  Cardinality({k \in 1..Len(plan.steps) : plan.steps[k].status = "completed"})

(* lines 2115-2138 *)
ExecuteReturn(e) ==
  /\ component = "planner" /\ turn = e /\ e \in ExecIds /\ execs[e].pc = "finish"
  /\ LET p == execs[e].plan
         st == PlanStatusAtEnd(plans[p].status)
     IN /\ plans' = [plans EXCEPT ![p].status = st]
        /\ executionHistory' = Append(executionHistory,
             [planId |-> p, status |-> st, stepCount |-> Len(plans[p].steps),
              completedSteps |-> CompletedSteps(plans[p])])
        /\ execs' = [execs EXCEPT ![e].pc = "done", ![e].returned = p]
  /\ turn' = 0
  /\ UNCHANGED <<component, activePlan, progressVars, engineVars, otherVars>>

(* cancel(), lines 2144-2148 *)
CancelApplies == activePlan # 0 /\ plans[activePlan].status = "running"

Cancel ==
  /\ component = "planner" /\ turn = 0
  /\ CancelApplies
  /\ plans' = [plans EXCEPT ![activePlan].status = "cancelled"]
  /\ execs' = [e \in ExecIds |->
                 IF execs[e].plan = activePlan /\ execs[e].pc = "await"
                   THEN [execs[e] EXCEPT !.cancelSeen = TRUE] ELSE execs[e]]
  /\ UNCHANGED <<component, turn, activePlan, executionHistory, progressVars,
                 engineVars, otherVars>>

(* the callbacks given to onProgress: one that returns, one that throws *)
Callbacks == {"returns", "throws"}

(* onProgress(callback), lines 2210-2212 *)
OnProgress(callback) ==
  /\ component = "planner" /\ turn = 0
  /\ onStepComplete' = callback
  /\ UNCHANGED <<component, turn, plans, activePlan, execs, executionHistory,
                 progressCalls, engineVars, otherVars>>

PlannerNext ==
  \/ \E tpls \in SeqsUpTo(StepTemplates, MaxSteps) : CreatePlan(tpls)
  \/ \E p \in PlanIds, ex \in ExecutorMaps : ExecuteCall(p, ex)
  \/ \E e \in ExecIds : LoopHead(e)
  \/ \E e \in ExecIds : CallMissing(e)
  \/ \E e \in ExecIds : CallThrows(e)
  \/ \E e \in ExecIds, t \in SettleTimes : CallAwaits(e, t)
  \/ \E e \in ExecIds : SettleResolve(e)
  \/ \E e \in ExecIds : SettleReject(e)
  \/ \E e \in ExecIds : SettleTimeout(e)
  \/ \E e \in ExecIds : StepResolved(e)
  \/ \E e \in ExecIds : StepCatch(e)
  \/ \E e \in ExecIds : ExecuteReturn(e)
  \/ Cancel

PlannerInit ==
  /\ plans = <<>> /\ activePlan = 0 /\ execs = <<>> /\ executionHistory = <<>>
  /\ onStepComplete = "null" /\ progressCalls = <<>>


(* Math.round(x) of the quotient a / b of two naturals: NaN for 0 / 0, and *)
(* else the nearest integer, a half rounded up                             *)
RoundedQuotient(a, b) ==
  IF b = 0 THEN [nan |-> TRUE, n |-> 0]
  ELSE [nan |-> FALSE, n |-> (2 * a + b) \div (2 * b)]

ProgressSteps(plan) ==
  {k \in 1..Len(plan.steps) : plan.steps[k].status \in {"completed", "skipped"}}

(* getProgress(), lines 2169-2177 *)
getProgress ==
  IF activePlan = 0 THEN [nan |-> FALSE, n |-> 0]
  ELSE RoundedQuotient(Cardinality(ProgressSteps(plans[activePlan])) * 100,
                       Len(plans[activePlan].steps))

----------------------------------------------------------------------------
(*                             WorkflowEngine                              *)

(* Steps of a workflow definition: two executor actions (one required and  *)
(* without a timeout, one optional and with one) and the natively handled  *)
(* `wait`.                                                                 *)
WfStepTemplates ==
  { [action |-> "click",   optional |-> FALSE, timeout |-> 0],
    [action |-> "extract", optional |-> TRUE,  timeout |-> 5000],
    [action |-> "wait",    optional |-> FALSE, timeout |-> 0] }

WfActions == {"click", "extract"}
WfExecutorMaps == {WfActions, {}}

(* the step kinds executeStep handles itself, lines 271-296 *)
NativeKinds == {"condition", "loop", "forEach", "setVariable", "wait", "parallel"}

defaultMaxRetries == 3          \* createWorkflow: config.maxRetries || 3

(* createWorkflow, lines 85-108 *)
NewWorkflow(steps, retry) ==
  [steps |-> steps,
   settings |-> [retryOnError |-> retry, maxRetries |-> defaultMaxRetries],
   statistics |-> [runCount |-> 0, successCount |-> 0, failureCount |-> 0]]

(* executeStep, lines 259-267: the result object; it has no retries field *)
NewResult(step, index) ==
  [stepIndex |-> index, action |-> step.action, status |-> "running",
   result |-> "null", error |-> "null", retries |-> "undefined"]

NoResult == [stepIndex |-> -1, action |-> "null", status |-> "null",
             result |-> "null", error |-> "null", retries |-> "undefined"]

(* One call of WorkflowEngine.execute.  pc is the place in the body:       *)
(*   loop      head of the for loop, i the (0-based) index of the step     *)
(*   call      in executeStep, result object made, dispatch on the action  *)
(*   await     suspended in the race of the executor with the timer        *)
(*   delay     suspended in this.delay(...); `after` is where it resumes   *)
(*   stepOk    executeStep after the switch;  stepCatch: in its catch      *)
(*   stepEnd   execute suspended in `await this.executeStep(...)`          *)
(*   saveStats / saveExec  suspended in the two saveToStore awaits         *)
(*   done      returned the execution;  rejected: the call rejected        *)
(* cur is the result object of the executeStep call in progress; started,  *)
(* invoked and cancelSeen are history as in the planner.                   *)
NewWfExec(w, ex) ==
  [pc |-> "loop", workflow |-> w, i |-> 0, executors |-> ex,
   status |-> "running", error |-> "null", stepResults |-> <<>>,
   cur |-> NoResult, err |-> "null", after |-> "null", deadline |-> 0,
   settleAt |-> 0, started |-> 0, invoked |-> 0, cancelSeen |-> FALSE, returned |-> 0]

RejectedWfExec(ex) ==
  [NewWfExec(0, ex) EXCEPT !.pc = "rejected", !.status = "null",
                           !.err = "Workflow not found"]

WfIds == 1..Len(workflows)
WfExecIds == 1..Len(wexecs)
WfOf(x) == workflows[wexecs[x].workflow]
WfCurStep(x) == WfOf(x).steps[wexecs[x].i + 1]

(* line 210 *)
WfLoopCancelled(status) == status = "cancelled"

WfNoExecutorMessage_Generic(action) == "No executor"

(* line 302 *)
WfNoExecutorMessage(action) == "No executor for action: " \o action

(* line 308 *)
WfStepDeadline(step) == IF step.timeout # 0 THEN step.timeout ELSE wfDefaultStepTimeout

JsLess_UndefinedAsZero(a, b) == IF a = "undefined" THEN 0 < b ELSE a < b

(* line 218: `stepResult.retries < maxRetries`; undefined < n is false *)
JsLess(a, b) == IF a = "undefined" THEN FALSE ELSE a < b

(* line 221: (stepResult.retries || 0) + 1 *)
JsOrZero(a) == IF a = "undefined" THEN 0 ELSE a

(* line 217 *)
StepFatal(result, step) == result.status = "failed" /\ ~step.optional

(* line 218 *)
ShouldRetry(settings, result) ==
  settings.retryOnError /\ JsLess(result.retries, settings.maxRetries)

WfStatusAtEnd_Keeps(status) == status

(* lines 232-234 *)
WfStatusAtEnd(status) == IF status = "running" THEN "completed" ELSE status

UpdatedStatistics_FailedOnly(stats, status) ==
  [runCount |-> stats.runCount + 1,
   successCount |-> stats.successCount + (IF status = "completed" THEN 1 ELSE 0),
   failureCount |-> stats.failureCount + (IF status = "failed" THEN 1 ELSE 0)]

(* updateStatistics, lines 516-523 *)
UpdatedStatistics(stats, status) ==
  [runCount |-> stats.runCount + 1,
   successCount |-> stats.successCount + (IF status = "completed" THEN 1 ELSE 0),
   failureCount |-> stats.failureCount + (IF status = "completed" THEN 0 ELSE 1)]

(* createWorkflow(config) *)
CreateWorkflow(steps, retry) ==
  /\ component = "workflow" /\ turn = 0
  /\ Len(workflows) < MaxWorkflows
  /\ workflows' = Append(workflows, NewWorkflow(steps, retry))
  /\ UNCHANGED <<component, turn, activeWorkflow, wexecs, plannerVars, otherVars>>

(* execute(idOrName, _, executors), lines 178-182: no such workflow *)
WfExecuteUnknown(ex) ==
  /\ component = "workflow" /\ turn = 0
  /\ Len(wexecs) < MaxWfExec
  /\ wexecs' = Append(wexecs, RejectedWfExec(ex))
  /\ UNCHANGED <<component, turn, workflows, activeWorkflow, plannerVars, otherVars>>

(* execute(idOrName, _, executors), lines 178-202 *)
WfExecuteCall(w, ex) ==
  /\ component = "workflow" /\ turn = 0
  /\ Len(wexecs) < MaxWfExec
  /\ w \in WfIds
  /\ wexecs' = Append(wexecs, NewWfExec(w, ex))
  /\ activeWorkflow' = Len(wexecs) + 1
  /\ turn' = Len(wexecs) + 1
  /\ UNCHANGED <<component, workflows, plannerVars, otherVars>>

(* lines 206-214 and 259-267: loop head, then executeStep makes its result *)
WfLoopHead(x) ==
  /\ component = "workflow" /\ turn = x /\ x \in WfExecIds
  /\ wexecs[x].pc = "loop"
  /\ IF wexecs[x].i >= Len(WfOf(x).steps) \/ WfLoopCancelled(wexecs[x].status)
       THEN wexecs' = [wexecs EXCEPT ![x].pc = "finish"]
       ELSE wexecs' = [wexecs EXCEPT ![x].pc = "call", ![x].started = @ + 1,
                         ![x].cur = NewResult(WfCurStep(x), wexecs[x].i)]
  /\ UNCHANGED <<component, turn, workflows, activeWorkflow, plannerVars, otherVars>>

(* lines 289-292: the native `wait` *)
WfCallWait(x) ==
  /\ component = "workflow" /\ turn = x /\ x \in WfExecIds
  /\ wexecs[x].pc = "call"
  /\ WfCurStep(x).action = "wait"
  /\ wexecs' = [wexecs EXCEPT ![x].pc = "delay", ![x].after = "stepOk"]
  /\ turn' = 0
  /\ UNCHANGED <<component, workflows, activeWorkflow, plannerVars, otherVars>>

(* lines 298-303 *)
WfCallMissing(x) ==
  /\ component = "workflow" /\ turn = x /\ x \in WfExecIds
  /\ wexecs[x].pc = "call"
  /\ WfCurStep(x).action \notin NativeKinds
  /\ WfCurStep(x).action \notin wexecs[x].executors
  /\ wexecs' = [wexecs EXCEPT ![x].pc = "stepCatch",
                   ![x].err = WfNoExecutorMessage(WfCurStep(x).action)]
  /\ UNCHANGED <<component, turn, workflows, activeWorkflow, plannerVars, otherVars>>

(* lines 305-309: the executor throws before returning a promise *)
WfCallThrows(x) ==
  /\ component = "workflow" /\ turn = x /\ x \in WfExecIds
  /\ wexecs[x].pc = "call"
  /\ WfCurStep(x).action \notin NativeKinds
  /\ WfCurStep(x).action \in wexecs[x].executors
  /\ wexecs' = [wexecs EXCEPT ![x].pc = "stepCatch", ![x].err = ExecutorError,
                              ![x].invoked = @ + 1]
  /\ UNCHANGED <<component, turn, workflows, activeWorkflow, plannerVars, otherVars>>

(* lines 305-309: the executor returns a promise, raced with the timer *)
WfCallAwaits(x, t) ==
  /\ component = "workflow" /\ turn = x /\ x \in WfExecIds
  /\ wexecs[x].pc = "call"
  /\ WfCurStep(x).action \notin NativeKinds
  /\ WfCurStep(x).action \in wexecs[x].executors
  /\ wexecs' = [wexecs EXCEPT ![x].pc = "await", ![x].invoked = @ + 1,
                              ![x].settleAt = t,
                              ![x].deadline = WfStepDeadline(WfCurStep(x))]
  /\ turn' = 0
  /\ UNCHANGED <<component, workflows, activeWorkflow, plannerVars, otherVars>>

(* withTimeout, lines 636-643 *)
WfSettleResolve(x) ==
  /\ component = "workflow" /\ turn = 0 /\ x \in WfExecIds
  /\ wexecs[x].pc = "await"
  /\ RaceWinner(wexecs[x].settleAt, wexecs[x].deadline) = "executor"
  /\ wexecs' = [wexecs EXCEPT ![x].pc = "stepOk", ![x].cur.result = "ok",
                              ![x].settleAt = 0, ![x].deadline = 0]
  /\ turn' = x
  /\ UNCHANGED <<component, workflows, activeWorkflow, plannerVars, otherVars>>

WfSettleReject(x) ==
  /\ component = "workflow" /\ turn = 0 /\ x \in WfExecIds
  /\ wexecs[x].pc = "await"
  /\ RaceWinner(wexecs[x].settleAt, wexecs[x].deadline) = "executor"
  /\ wexecs' = [wexecs EXCEPT ![x].pc = "stepCatch", ![x].err = ExecutorError,
                              ![x].settleAt = 0, ![x].deadline = 0]
  /\ turn' = x
  /\ UNCHANGED <<component, workflows, activeWorkflow, plannerVars, otherVars>>

WfTimeoutOutcome(x) ==
  [wexecs[x] EXCEPT !.pc = "stepCatch", !.err = TimeoutError,
                    !.settleAt = 0, !.deadline = 0]

WfSettleTimeout(x) ==
  /\ component = "workflow" /\ turn = 0 /\ x \in WfExecIds
  /\ wexecs[x].pc = "await"
  /\ RaceWinner(wexecs[x].settleAt, wexecs[x].deadline) = "timer"
  /\ wexecs' = [wexecs EXCEPT ![x] = WfTimeoutOutcome(x)]
  /\ turn' = x
  /\ UNCHANGED <<component, workflows, activeWorkflow, plannerVars, otherVars>>

(* delay, lines 627-630: the timer of a wait step or of a retry fires *)
WfDelayDone(x) ==
  /\ component = "workflow" /\ turn = 0 /\ x \in WfExecIds
  /\ wexecs[x].pc = "delay"
  /\ wexecs' = [wexecs EXCEPT ![x].pc = wexecs[x].after, ![x].after = "null",
                   ![x].cur.result = IF wexecs[x].after = "stepOk"
                                       THEN "waited" ELSE @]
  /\ turn' = x
  /\ UNCHANGED <<component, workflows, activeWorkflow, plannerVars, otherVars>>

(* lines 315, 322-325: executeStep returns a completed result; execute is  *)
(* resumed from `await this.executeStep(...)` in a later turn              *)
WfStepOk(x) ==
  /\ component = "workflow" /\ turn = x /\ x \in WfExecIds
  /\ wexecs[x].pc = "stepOk"
  /\ wexecs' = [wexecs EXCEPT ![x].pc = "stepEnd", ![x].cur.status = "completed"]
  /\ turn' = 0
  /\ UNCHANGED <<component, workflows, activeWorkflow, plannerVars, otherVars>>

(* lines 317-325: executeStep returns a failed result *)
FailedResult(result, msg) == [result EXCEPT !.status = "failed", !.error = msg]

WfStepCatch(x) ==
  /\ component = "workflow" /\ turn = x /\ x \in WfExecIds
  /\ wexecs[x].pc = "stepCatch"
  /\ wexecs' = [wexecs EXCEPT ![x].pc = "stepEnd",
                   ![x].cur = FailedResult(wexecs[x].cur, wexecs[x].err)]
  /\ turn' = 0
  /\ UNCHANGED <<component, workflows, activeWorkflow, plannerVars, otherVars>>

(* lines 214-229: execute resumes with the step's result *)
WfStepEnd(x) ==
  /\ component = "workflow" /\ turn = 0 /\ x \in WfExecIds
  /\ wexecs[x].pc = "stepEnd"
  /\ LET r == wexecs[x].cur
         pushed == Append(wexecs[x].stepResults, r)
         n == Len(pushed)
     IN IF StepFatal(r, WfCurStep(x))
          THEN IF ShouldRetry(WfOf(x).settings, r)
                 THEN /\ wexecs' = [wexecs EXCEPT ![x].pc = "delay",
                            ![x].after = "loop", ![x].cur = NoResult,
                            ![x].stepResults =
                               [pushed EXCEPT ![n].retries = JsOrZero(r.retries) + 1]]
                      /\ turn' = 0
                 ELSE /\ wexecs' = [wexecs EXCEPT ![x].pc = "finish",
                            ![x].cur = NoResult, ![x].stepResults = pushed,
                            ![x].status = "failed", ![x].error = r.error]
                      /\ turn' = x
          ELSE /\ wexecs' = [wexecs EXCEPT ![x].pc = "loop", ![x].i = @ + 1,
                     ![x].cur = NoResult, ![x].stepResults = pushed]
               /\ turn' = x
  /\ UNCHANGED <<component, workflows, activeWorkflow, plannerVars, otherVars>>

(* lines 232-245 and 512-531: after the loop; updateStatistics runs up to  *)
(* its saveToStore                                                         *)
WfFinish(x) ==
  /\ component = "workflow" /\ turn = x /\ x \in WfExecIds
  /\ wexecs[x].pc = "finish"
  /\ LET st == WfStatusAtEnd(wexecs[x].status)
         w == wexecs[x].workflow
     IN /\ wexecs' = [wexecs EXCEPT ![x].pc = "saveStats", ![x].status = st]
        /\ workflows' = [workflows EXCEPT ![w].statistics =
                            UpdatedStatistics(@, st)]
  /\ turn' = 0
  /\ UNCHANGED <<component, activeWorkflow, plannerVars, otherVars>>

(* line 248: the workflow is saved; saveToStore('executions', execution) *)
WfStatsSaved(x) ==
  /\ component = "workflow" /\ turn = 0 /\ x \in WfExecIds
  /\ wexecs[x].pc = "saveStats"
  /\ wexecs' = [wexecs EXCEPT ![x].pc = "saveExec"]
  /\ UNCHANGED <<component, turn, workflows, activeWorkflow, plannerVars, otherVars>>

(* lines 250-252 *)
WfExecuteReturn(x) ==
  /\ component = "workflow" /\ turn = 0 /\ x \in WfExecIds
  /\ wexecs[x].pc = "saveExec"
  /\ wexecs' = [wexecs EXCEPT ![x].pc = "done", ![x].returned = x]
  /\ activeWorkflow' = 0
  /\ UNCHANGED <<component, turn, workflows, plannerVars, otherVars>>

(* cancel(), lines 537-541 *)
WfCancel ==
  /\ component = "workflow" /\ turn = 0
  /\ activeWorkflow # 0
  /\ wexecs' = [wexecs EXCEPT ![activeWorkflow].status = "cancelled",
                              ![activeWorkflow].cancelSeen = TRUE]
  /\ UNCHANGED <<component, turn, workflows, activeWorkflow, plannerVars, otherVars>>

EngineNext ==
  \/ \E steps \in SeqsUpTo(WfStepTemplates, MaxSteps), retry \in BOOLEAN :
       CreateWorkflow(steps, retry)
  \/ \E ex \in WfExecutorMaps : WfExecuteUnknown(ex)
  \/ \E w \in WfIds, ex \in WfExecutorMaps : WfExecuteCall(w, ex)
  \/ \E x \in WfExecIds : WfLoopHead(x)
  \/ \E x \in WfExecIds : WfCallWait(x)
  \/ \E x \in WfExecIds : WfCallMissing(x)
  \/ \E x \in WfExecIds : WfCallThrows(x)
  \/ \E x \in WfExecIds, t \in SettleTimes : WfCallAwaits(x, t)
  \/ \E x \in WfExecIds : WfSettleResolve(x)
  \/ \E x \in WfExecIds : WfSettleReject(x)
  \/ \E x \in WfExecIds : WfSettleTimeout(x)
  \/ \E x \in WfExecIds : WfDelayDone(x)
  \/ \E x \in WfExecIds : WfStepOk(x)
  \/ \E x \in WfExecIds : WfStepCatch(x)
  \/ \E x \in WfExecIds : WfStepEnd(x)
  \/ \E x \in WfExecIds : WfFinish(x)
  \/ \E x \in WfExecIds : WfStatsSaved(x)
  \/ \E x \in WfExecIds : WfExecuteReturn(x)
  \/ WfCancel

EngineInit ==
  /\ workflows = <<>> /\ activeWorkflow = 0 /\ wexecs = <<>>

----------------------------------------------------------------------------
(*            WorkflowEngine: values, strings and conditions               *)

(* A JavaScript string is a sequence of symbols: single characters, and    *)
(* whole words (an operand such as done, a word operator, a {{name}}       *)
(* reference) taken as one symbol each.  A value of a variable is          *)
(* undefined, a number or a string.                                        *)
Undefined == [t |-> "undefined", n |-> 0, s |-> <<>>]
Num(n) == [t |-> "number", n |-> n, s |-> <<>>]
Str(s) == [t |-> "string", n |-> 0, s |-> s]

VarNames == {"x", "v", "_index", "_iteration", "_item", "item"}
Ref(name) == "{{" \o name \o "}}"
NoVariables == [name \in VarNames |-> Undefined]

(* String(value), as String.prototype.replace does with what its callback  *)
(* returns                                                                 *)
ToStr(value) == IF value.t = "number" THEN <<ToString(value.n)>> ELSE value.s

RECURSIVE Flatten(_)
Flatten(parts) ==
  IF parts = <<>> THEN <<>> ELSE Head(parts) \o Flatten(Tail(parts))

(* lines 479-484 (the callback): what a symbol of the string is replaced by *)
Replacement(sym, variables, lastResult) ==
  IF sym = Ref("lastResult") THEN lastResult
  ELSE IF \E name \in VarNames : sym = Ref(name)
    THEN LET name == CHOOSE nm \in VarNames : sym = Ref(nm)
         IN IF variables[name].t = "undefined" THEN <<sym>>
            ELSE ToStr(variables[name])
    ELSE <<sym>>

(* resolveValue of a string, lines 477-485 *)
resolveValue(value, variables, lastResult) ==
  Flatten([k \in 1..Len(value) |-> Replacement(value[k], variables, lastResult)])

(* String.prototype.trim *)
RECURSIVE TrimLeft(_)
TrimLeft(s) == IF s # <<>> /\ Head(s) = " " THEN TrimLeft(Tail(s)) ELSE s

RECURSIVE TrimRight(_)
TrimRight(s) ==
  IF s # <<>> /\ s[Len(s)] = " " THEN TrimRight(SubSeq(s, 1, Len(s) - 1)) ELSE s

Trim(s) == TrimRight(TrimLeft(s))

(* op occurs in s at position k *)
StartsAt(s, op, k) ==
  /\ k + Len(op) - 1 <= Len(s)
  /\ SubSeq(s, k, k + Len(op) - 1) = op

(* String.prototype.includes, for a non-empty op *)
Includes(s, op) == \E k \in 1..Len(s) : StartsAt(s, op, k)

IndexOf(s, op) ==
  CHOOSE k \in 1..Len(s) :
    StartsAt(s, op, k) /\ \A j \in 1..(k - 1) : ~StartsAt(s, op, j)

(* `const [left, right] = resolved.split(op)`, line 370: the text before   *)
(* the first occurrence of op, and the text between it and the next one    *)
SplitLeft(s, op) == SubSeq(s, 1, IndexOf(s, op) - 1)

SplitRight(s, op) ==
  LET rest == SubSeq(s, IndexOf(s, op) + Len(op), Len(s))
  IN IF Includes(rest, op) THEN SubSeq(rest, 1, IndexOf(rest, op) - 1) ELSE rest

(* Number(text) of a trimmed text: a decimal numeral, the empty string     *)
(* (0), or NaN                                                             *)
Numerals == {"0", "1", "2", "3", "5"}
DigitOf(sym) == CHOOSE d \in 0..9 : ToString(d) = sym

RECURSIVE Decimal(_)
Decimal(s) ==
  IF s = <<>> THEN 0
  ELSE 10 * Decimal(SubSeq(s, 1, Len(s) - 1)) + DigitOf(s[Len(s)])

Number(s) ==
  IF \A k \in 1..Len(s) : s[k] \in Numerals
    THEN [nan |-> FALSE, n |-> Decimal(s)]
    ELSE [nan |-> TRUE, n |-> 0]

(* a prefix / a suffix / a part of a is b *)
StartsWith(a, b) == Len(b) <= Len(a) /\ SubSeq(a, 1, Len(b)) = b
EndsWith(a, b) == Len(b) <= Len(a) /\ SubSeq(a, Len(a) - Len(b) + 1, Len(a)) = b
Contains(a, b) == b = <<>> \/ Includes(a, b)

Comparisons_ShortFirst ==
  << <<"=", "=">>, <<"!", "=">>, <<">">>, <<"<">>, <<"=", "=", "=">>,
     <<"!", "=", "=">>, <<">", "=">>, <<"<", "=">>,
     <<"contains">>, <<"startsWith">>, <<"endsWith">> >>

(* lines 354-366: the operators, in the order they are looked for *)
Comparisons ==
  << <<"=", "=", "=">>, <<"!", "=", "=">>, <<">", "=">>, <<"<", "=">>,
     <<">">>, <<"<">>, <<"=", "=">>, <<"!", "=">>,
     <<"contains">>, <<"startsWith">>, <<"endsWith">> >>

(* lines 355-365: fn(a, b) of the operator op, on two strings *)
Compare(op, a, b) ==
  LET na == Number(a)
      nb == Number(b)
      numbers == ~na.nan /\ ~nb.nan
  IN CASE op \in {<<"=", "=", "=">>, <<"=", "=">>} -> a = b
       [] op \in {<<"!", "=", "=">>, <<"!", "=">>} -> a # b
       [] op = <<">", "=">> -> numbers /\ na.n >= nb.n
       [] op = <<"<", "=">> -> numbers /\ na.n <= nb.n
       [] op = <<">">> -> numbers /\ na.n > nb.n
       [] op = <<"<">> -> numbers /\ na.n < nb.n
       [] op = <<"contains">> -> Contains(a, b)
       [] op = <<"startsWith">> -> StartsWith(a, b)
       [] op = <<"endsWith">> -> EndsWith(a, b)

(* line 376 *)
Truthy(resolved) == resolved \notin {<<>>, <<"false">>, <<"0">>}

(* evaluateCondition of a string, lines 346-377 *)
evaluateCondition(cond, variables, lastResult) ==
  LET resolved == resolveValue(cond, variables, lastResult)
      found == {k \in 1..Len(Comparisons) : Includes(resolved, Comparisons[k])}
  IN IF found # {}
       THEN LET op == Comparisons[CHOOSE k \in found : \A j \in found : k <= j]
                left == Trim(SplitLeft(resolved, op))
                right == Trim(SplitRight(resolved, op))
            IN Compare(op, resolveValue(left, variables, lastResult),
                           resolveValue(right, variables, lastResult))
       ELSE Truthy(resolved)

(* The conditions evaluateCondition is given: a left operand, some operator *)
(* characters or a word operator, a right operand, with or without spaces. *)
MaxOpLen == 3        \* operator characters between the operands

Operands ==
  { <<>>, <<"5">>, <<"3">>, <<"1", "0">>, <<"a">>, <<"done">>, <<"false">>,
    <<"0">>, <<Ref("x")>> }

OperatorTexts ==
  SeqsUpTo({"=", "!", ">", "<"}, MaxOpLen)
    \cup {<<"contains">>, <<"startsWith">>, <<"endsWith">>}

Conditions ==
  { lead \o l \o pad \o m \o pad \o r :
      lead \in {<<>>, <<" ">>}, pad \in {<<>>, <<" ">>},
      l \in Operands, m \in OperatorTexts, r \in Operands }

XValues == {Undefined, Str(<<"done">>), Num(5)}

NoConditionResult == [done |-> FALSE, value |-> FALSE]

(* evaluateCondition(condition) *)
EvaluateCondition ==
  /\ component = "condition"
  /\ ~conditionResult.done
  /\ conditionResult' =
       [done |-> TRUE,
        value |-> evaluateCondition(condition.text,
                     [NoVariables EXCEPT !["x"] = condition.x], <<"null">>)]
  /\ UNCHANGED <<component, turn, condition, plannerVars, engineVars, stepsVars,
                 selectorVars, laterVars>>

ConditionIdle ==
  /\ condition = [text |-> <<>>, x |-> Undefined]
  /\ conditionResult = NoConditionResult

ConditionInit ==
  /\ condition \in [text : Conditions, x : XValues]
  /\ conditionResult = NoConditionResult

----------------------------------------------------------------------------
(*          WorkflowEngine: nested steps and execution variables           *)

(* A second view of execute and executeStep, for the steps executeStep     *)
(* handles itself (setVariable, loop, forEach, parallel) and for the       *)
(* variables of an execution.  Timers, retries, cancel() and statistics    *)
(* are in the first view; here an awaited executor resolves or rejects,    *)
(* the workflows have the default retryOnError = false, and no step has a  *)
(* delay.                                                                  *)

ArrayOf(items) == [isArray |-> TRUE, items |-> items]
(* a collection that is no array: a string such as '{{items}}', which      *)
(* resolveValue turns into another string                                  *)
NotAnArray == [isArray |-> FALSE, items |-> <<>>]

BaseStep ==
  [action |-> "null", optional |-> FALSE, variableName |-> "null",
   value |-> <<>>, count |-> 0, collection |-> NotAnArray, body |-> <<>>,
   breakCondition |-> <<>>, steps |-> <<>>]

ClickStep == [BaseStep EXCEPT !.action = "click"]
ExtractStep == [BaseStep EXCEPT !.action = "extract", !.optional = TRUE]
SetVariable(name, value) ==
  [BaseStep EXCEPT !.action = "setVariable", !.variableName = name, !.value = value]
LoopStep(count, body, breakCondition) ==
  [BaseStep EXCEPT !.action = "loop", !.count = count, !.body = body,
                   !.breakCondition = breakCondition]
ForEachStep(collection, body, optional) ==
  [BaseStep EXCEPT !.action = "forEach", !.collection = collection,
                   !.body = body, !.optional = optional]
ParallelStep(steps) == [BaseStep EXCEPT !.action = "parallel", !.steps = steps]

(* the params of an executor step: what the executor is given of the       *)
(* variables                                                               *)
ExecutorParams ==
  [index |-> <<Ref("_index")>>, iteration |-> <<Ref("_iteration")>>,
   v |-> <<Ref("v")>>]

(* resolveParams, lines 505-507 *)
resolveParams(params, variables, lastResult) ==
  [f \in DOMAIN params |-> resolveValue(params[f], variables, lastResult)]

NotArrayError == "forEach requires an array collection"

(* what a step's result.result holds: the handler's return value *)
NoValue ==
  [kind |-> "null", count |-> 0, total |-> 0, completed |-> 0, failed |-> 0,
   error |-> "absent", results |-> <<>>]

(* executeStep, lines 259-267 *)
StepResult(step, index) ==
  [stepIndex |-> index, action |-> step.action, status |-> "running",
   result |-> NoValue, error |-> "null"]

NoStepResult ==
  [stepIndex |-> -1, action |-> "null", status |-> "null", result |-> NoValue,
   error |-> "null"]

(* a result as an entry of a handler's `results` array *)
Entry(r) ==
  [stepIndex |-> r.stepIndex, action |-> r.action, status |-> r.status,
   error |-> r.error]

(* The activation of execute (kind "execute": its loop over workflow.steps) *)
(* or of a handler (handleLoop, handleForEach, handleParallel):             *)
(*   body     the steps it runs;  i  the `i` of its for loop                *)
(*   j        the place in `for (const bodyStep of step.body)`              *)
(*   n        count (loop) or collection.length (forEach)                   *)
(*   cur      the result object of the executeStep call it awaits           *)
(*   branches the executeStep calls of handleParallel                       *)
Frame(kind, body) ==
  [kind |-> kind, body |-> body, i |-> 0, j |-> 0, n |-> 0, items |-> <<>>,
   breakCondition |-> <<>>, results |-> <<>>, cur |-> NoStepResult,
   branches |-> <<>>]

NoCall ==
  [kind |-> "null", i |-> 0, context |-> 0,
   params |-> [index |-> <<>>, iteration |-> <<>>, v |-> <<>>]]

(* execute, lines 184-194.  pc is the place of the call:                   *)
(*   head     head of the for loop of the innermost activation             *)
(*   body     head of the loop over the body steps                         *)
(*   call     in executeStep, result object made, before the switch        *)
(*   await    suspended in the await of the executor                       *)
(*   stepOk / stepCatch   executeStep after the switch / in its catch      *)
(*   stepEnd  executeStep has returned, its caller not yet resumed         *)
(*   iterEnd  after the body steps of an iteration                         *)
(*   return   a handler returns `ret`                                      *)
(*   spawn / join   handleParallel in its map / in await Promise.all       *)
(*   finish   after the loop of execute;  done: execute returned           *)
(* writers (who wrote each variable last), lastCall (what the last         *)
(* executor call was given) and invoked are history.                       *)
NewExecution(steps, ex) ==
  [steps |-> steps, executors |-> ex, status |-> "running", error |-> "null",
   variables |-> NoVariables, writers |-> [name \in VarNames |-> 0],
   stepResults |-> <<>>, stack |-> <<Frame("execute", steps)>>, pc |-> "head",
   err |-> "null", ret |-> NoValue, lastCall |-> NoCall, invoked |-> 0]

(* execute, lines 197-202; variables is execution.variables itself *)
NewContext(x) == [execution |-> x, lastResult |-> <<"null">>, lastResultBy |-> 0]
NoContext == NewContext(0)

ExecutionIds == 1..Len(executions)
Depth(x) == Len(executions[x].stack)
TopFrame(x) == executions[x].stack[Depth(x)]
BodyStep(f) == f.body[(IF f.kind = "execute" THEN f.i ELSE f.j) + 1]
CurrentStep(x) == BodyStep(TopFrame(x))

(* this.executionContext.variables *)
ContextVariables == executions[executionContext.execution].variables

(* executions with the call x at pc and its innermost activation replaced *)
Moved(x, pc, frame) ==
  [executions EXCEPT ![x].pc = pc, ![x].stack[Depth(x)] = frame]

(* `this.executionContext.variables[name] = value` for each name of        *)
(* assigned, done by a step of x                                           *)
Assigned(es, x, assigned) ==
  LET target == executionContext.execution
  IN [es EXCEPT
        ![target].variables =
           [name \in VarNames |->
              IF name \in DOMAIN assigned THEN assigned[name] ELSE @[name]],
        ![target].writers =
           [name \in VarNames |->
              IF name \in DOMAIN assigned THEN x ELSE @[name]]]

(* the call of an executor, lines 305-308 *)
Invoked(x) ==
  [kind |-> TopFrame(x).kind, i |-> TopFrame(x).i,
   context |-> executionContext.execution,
   params |-> resolveParams(ExecutorParams, ContextVariables,
                            executionContext.lastResult)]

IsExecutorStep(step) == step.action \notin NativeKinds

(* execute(idOrName, inputVariables = {}, executors), lines 178-202 *)
StartExecution(steps, ex, limit) ==
  /\ turn = 0
  /\ Len(executions) < limit
  /\ executions' = Append(executions, NewExecution(steps, ex))
  /\ executionContext' = NewContext(Len(executions) + 1)
  /\ turn' = Len(executions) + 1
  /\ UNCHANGED <<component, plannerVars, engineVars, conditionVars, selectorVars,
                 laterVars>>

(* lines 206-214 and 259-267: the loop of execute, then executeStep *)
ExecuteHead(x) ==
  /\ turn = x /\ x \in ExecutionIds
  /\ executions[x].pc = "head" /\ TopFrame(x).kind = "execute"
  /\ LET f == TopFrame(x)
     IN IF f.i >= Len(f.body) \/ WfLoopCancelled(executions[x].status)
          THEN executions' = [executions EXCEPT ![x].pc = "finish"]
          ELSE executions' =
                 Moved(x, "call", [f EXCEPT !.cur = StepResult(BodyStep(f), f.i)])
  /\ UNCHANGED <<component, turn, executionContext, plannerVars, engineVars,
                 conditionVars, selectorVars,
                 laterVars>>

(* what handleLoop / handleForEach write at the head of iteration i, lines *)
(* 390-391 and 428-431 (itemVariable is left to its default)               *)
Injected(f) ==
  IF f.kind = "loop"
    THEN [name \in {"_index", "_iteration"} |->
            IF name = "_index" THEN Num(f.i) ELSE Num(f.i + 1)]
    ELSE [name \in {"_item", "_index", "item"} |->
            IF name = "_index" THEN Num(f.i) ELSE Str(<<f.items[f.i + 1]>>)]

(* lines 413 and 448: the value a handler returns when its loop has ended *)
Finished(f) ==
  IF f.kind = "loop"
    THEN [NoValue EXCEPT !.kind = "loop", !.count = f.n, !.results = f.results]
    ELSE [NoValue EXCEPT !.kind = "forEach", !.count = f.n, !.total = f.n,
                         !.results = f.results]

Stopped_AtNext(f, error) ==
  [NoValue EXCEPT !.kind = f.kind, !.count = f.i + 1, !.total = f.n,
                  !.results = f.results, !.error = error]

(* lines 398 and 438: the value returned when a body step has failed *)
Stopped(f, error) ==
  [NoValue EXCEPT !.kind = f.kind, !.count = f.i,
                  !.total = IF f.kind = "forEach" THEN f.n ELSE 0,
                  !.results = f.results, !.error = error]

(* lines 389-391 and 427-431: the head of `for (let i = 0; i < ...; i++)` *)
IterationHead(x) ==
  /\ turn = x /\ x \in ExecutionIds
  /\ executions[x].pc = "head" /\ TopFrame(x).kind \in {"loop", "forEach"}
  /\ LET f == TopFrame(x)
     IN IF f.i < f.n
          THEN executions' =
                 Assigned(Moved(x, "body", [f EXCEPT !.j = 0]), x, Injected(f))
          ELSE executions' =
                 [executions EXCEPT ![x].pc = "return", ![x].ret = Finished(f)]
  /\ UNCHANGED <<component, turn, executionContext, plannerVars, engineVars,
                 conditionVars, selectorVars,
                 laterVars>>

(* lines 393-394 and 433-434: the next body step, or the end of the body *)
BodyHead(x) ==
  /\ turn = x /\ x \in ExecutionIds
  /\ executions[x].pc = "body"
  /\ LET f == TopFrame(x)
     IN IF f.j < Len(f.body)
          THEN executions' =
                 Moved(x, "call", [f EXCEPT !.cur = StepResult(BodyStep(f), f.i)])
          ELSE executions' = [executions EXCEPT ![x].pc = "iterEnd"]
  /\ UNCHANGED <<component, turn, executionContext, plannerVars, engineVars,
                 conditionVars, selectorVars,
                 laterVars>>

(* line 403 *)
Breaks(f) ==
  /\ f.kind = "loop"
  /\ f.breakCondition # <<>>
  /\ evaluateCondition(f.breakCondition, ContextVariables,
                       executionContext.lastResult)

(* lines 402-411 and 442-446: after the body steps of an iteration *)
IterationEnd(x) ==
  /\ turn = x /\ x \in ExecutionIds
  /\ executions[x].pc = "iterEnd"
  /\ LET f == TopFrame(x)
     IN IF Breaks(f)
          THEN executions' =
                 [executions EXCEPT ![x].pc = "return", ![x].ret = Finished(f)]
          ELSE executions' = Moved(x, "head", [f EXCEPT !.i = @ + 1])
  /\ UNCHANGED <<component, turn, executionContext, plannerVars, engineVars,
                 conditionVars, selectorVars,
                 laterVars>>

(* lines 284-287 *)
CallSetVariable(x) ==
  /\ turn = x /\ x \in ExecutionIds
  /\ executions[x].pc = "call"
  /\ CurrentStep(x).action = "setVariable"
  /\ LET f == TopFrame(x)
         step == CurrentStep(x)
         value == Str(resolveValue(step.value, ContextVariables,
                                   executionContext.lastResult))
     IN executions' =
          Assigned(Moved(x, "stepOk", [f EXCEPT !.cur.result.kind = "variable"]),
                   x, [name \in {step.variableName} |-> value])
  /\ UNCHANGED <<component, turn, executionContext, plannerVars, engineVars,
                 conditionVars, selectorVars,
                 laterVars>>

(* lines 298-303 *)
NoExecutorStep(x) ==
  /\ turn = x /\ x \in ExecutionIds
  /\ executions[x].pc = "call"
  /\ IsExecutorStep(CurrentStep(x))
  /\ CurrentStep(x).action \notin executions[x].executors
  /\ executions' = [executions EXCEPT ![x].pc = "stepCatch",
                       ![x].err = WfNoExecutorMessage(CurrentStep(x).action)]
  /\ UNCHANGED <<component, turn, executionContext, plannerVars, engineVars,
                 conditionVars, selectorVars,
                 laterVars>>

(* lines 305-309: the executor throws before returning a promise *)
ExecutorThrows(x) ==
  /\ turn = x /\ x \in ExecutionIds
  /\ executions[x].pc = "call"
  /\ IsExecutorStep(CurrentStep(x))
  /\ CurrentStep(x).action \in executions[x].executors
  /\ executions' = [executions EXCEPT ![x].pc = "stepCatch",
                       ![x].err = ExecutorError, ![x].invoked = @ + 1,
                       ![x].lastCall = Invoked(x)]
  /\ UNCHANGED <<component, turn, executionContext, plannerVars, engineVars,
                 conditionVars, selectorVars,
                 laterVars>>

(* lines 305-309: the executor returns a promise, which is awaited *)
ExecutorCalled(x) ==
  /\ turn = x /\ x \in ExecutionIds
  /\ executions[x].pc = "call"
  /\ IsExecutorStep(CurrentStep(x))
  /\ CurrentStep(x).action \in executions[x].executors
  /\ executions' = [executions EXCEPT ![x].pc = "await", ![x].invoked = @ + 1,
                       ![x].lastCall = Invoked(x)]
  /\ turn' = 0
  /\ UNCHANGED <<component, executionContext, plannerVars, engineVars,
                 conditionVars, selectorVars,
                 laterVars>>

(* what the executor called by x resolves with *)
ResultValue(x) == <<"r" \o ToString(x)>>

(* lines 306-312: the promise resolves; lastResult is stored *)
ExecutorResolves(x) ==
  /\ turn = 0 /\ x \in ExecutionIds
  /\ executions[x].pc = "await"
  /\ executions' = Moved(x, "stepOk",
                         [TopFrame(x) EXCEPT !.cur.result.kind = "value"])
  /\ executionContext' = [executionContext EXCEPT !.lastResult = ResultValue(x),
                                                  !.lastResultBy = x]
  /\ turn' = x
  /\ UNCHANGED <<component, plannerVars, engineVars, conditionVars, selectorVars,
                 laterVars>>

(* lines 306-309: the promise rejects *)
ExecutorRejects(x) ==
  /\ turn = 0 /\ x \in ExecutionIds
  /\ executions[x].pc = "await"
  /\ executions' = [executions EXCEPT ![x].pc = "stepCatch",
                                      ![x].err = ExecutorError]
  /\ turn' = x
  /\ UNCHANGED <<component, executionContext, plannerVars, engineVars,
                 conditionVars, selectorVars,
                 laterVars>>

(* lines 315, 322-325: executeStep returns a completed result *)
StepCompleted(x) ==
  /\ turn = x /\ x \in ExecutionIds
  /\ executions[x].pc = "stepOk"
  /\ executions' = Moved(x, "stepEnd", [TopFrame(x) EXCEPT !.cur.status = "completed"])
  /\ turn' = 0
  /\ UNCHANGED <<component, executionContext, plannerVars, engineVars,
                 conditionVars, selectorVars,
                 laterVars>>

(* lines 317-325: executeStep returns a failed result *)
StepFailed(x) ==
  /\ turn = x /\ x \in ExecutionIds
  /\ executions[x].pc = "stepCatch"
  /\ executions' =
       Moved(x, "stepEnd",
             [TopFrame(x) EXCEPT !.cur = FailedResult(@, executions[x].err)])
  /\ turn' = 0
  /\ UNCHANGED <<component, executionContext, plannerVars, engineVars,
                 conditionVars, selectorVars,
                 laterVars>>

(* lines 214-229: execute resumes with the result of a top-level step *)
ResumeExecute(x) ==
  /\ turn = 0 /\ x \in ExecutionIds
  /\ executions[x].pc = "stepEnd" /\ TopFrame(x).kind = "execute"
  /\ LET f == TopFrame(x)
         r == f.cur
         pushed == Append(executions[x].stepResults, r)
     IN IF StepFatal(r, BodyStep(f))
          THEN executions' =
                 [Moved(x, "finish", [f EXCEPT !.cur = NoStepResult])
                    EXCEPT ![x].stepResults = pushed, ![x].status = "failed",
                           ![x].error = r.error]
          ELSE executions' =
                 [Moved(x, "head", [f EXCEPT !.cur = NoStepResult, !.i = @ + 1])
                    EXCEPT ![x].stepResults = pushed]
  /\ turn' = x
  /\ UNCHANGED <<component, executionContext, plannerVars, engineVars,
                 conditionVars, selectorVars,
                 laterVars>>

BodyFatal_Never(r, step) == FALSE

(* lines 397 and 437 *)
BodyFatal(r, step) == r.status = "failed" /\ ~step.optional

(* lines 394-400 and 434-440: a handler resumes with a body step's result *)
ResumeBody(x) ==
  /\ turn = 0 /\ x \in ExecutionIds
  /\ executions[x].pc = "stepEnd" /\ TopFrame(x).kind \in {"loop", "forEach"}
  /\ LET f == TopFrame(x)
         r == f.cur
         g == [f EXCEPT !.cur = NoStepResult, !.results = Append(@, Entry(r))]
     IN IF BodyFatal(r, BodyStep(f))
          THEN executions' =
                 [Moved(x, "return", g) EXCEPT ![x].ret = Stopped(g, r.error)]
          ELSE executions' = Moved(x, "body", [g EXCEPT !.j = @ + 1])
  /\ turn' = x
  /\ UNCHANGED <<component, executionContext, plannerVars, engineVars,
                 conditionVars, selectorVars,
                 laterVars>>

(* lines 276-278 and 385-387; count is a number, which resolveValue returns *)
(* as it is                                                                *)
EnterLoop(x) ==
  /\ turn = x /\ x \in ExecutionIds
  /\ executions[x].pc = "call"
  /\ CurrentStep(x).action = "loop"
  /\ LET step == CurrentStep(x)
         f == [Frame("loop", step.body) EXCEPT !.n = step.count,
                  !.breakCondition = step.breakCondition]
     IN executions' = [executions EXCEPT ![x].pc = "head",
                          ![x].stack = Append(@, f)]
  /\ UNCHANGED <<component, turn, executionContext, plannerVars, engineVars,
                 conditionVars, selectorVars,
                 laterVars>>

(* lines 280-282 and 419-425, the collection being an array *)
EnterForEach(x) ==
  /\ turn = x /\ x \in ExecutionIds
  /\ executions[x].pc = "call"
  /\ CurrentStep(x).action = "forEach"
  /\ CurrentStep(x).collection.isArray
  /\ LET step == CurrentStep(x)
         f == [Frame("forEach", step.body) EXCEPT
                  !.n = Len(step.collection.items), !.items = step.collection.items]
     IN executions' = [executions EXCEPT ![x].pc = "head",
                          ![x].stack = Append(@, f)]
  /\ UNCHANGED <<component, turn, executionContext, plannerVars, engineVars,
                 conditionVars, selectorVars,
                 laterVars>>

(* lines 423-425: handleForEach throws, which executeStep catches *)
ForEachNotArray(x) ==
  /\ turn = x /\ x \in ExecutionIds
  /\ executions[x].pc = "call"
  /\ CurrentStep(x).action = "forEach"
  /\ ~CurrentStep(x).collection.isArray
  /\ executions' = [executions EXCEPT ![x].pc = "stepCatch",
                                      ![x].err = NotArrayError]
  /\ UNCHANGED <<component, turn, executionContext, plannerVars, engineVars,
                 conditionVars, selectorVars,
                 laterVars>>

(* a handler returns: executeStep, which awaited it, stores the value in   *)
(* result.result (lines 277, 281, 295)                                     *)
HandlerReturns(x) ==
  /\ turn = x /\ x \in ExecutionIds
  /\ executions[x].pc = "return"
  /\ LET d == Depth(x)
         popped == SubSeq(executions[x].stack, 1, d - 1)
     IN executions' =
          [executions EXCEPT ![x].pc = "stepOk", ![x].ret = NoValue,
              ![x].stack = [popped EXCEPT ![d - 1].cur.result = executions[x].ret]]
  /\ UNCHANGED <<component, turn, executionContext, plannerVars, engineVars,
                 conditionVars, selectorVars,
                 laterVars>>

(* lines 232-252: after the loop of execute *)
FinishExecution(x) ==
  /\ turn = x /\ x \in ExecutionIds
  /\ executions[x].pc = "finish"
  /\ executions' = [executions EXCEPT ![x].pc = "done",
                       ![x].status = WfStatusAtEnd(@)]
  /\ turn' = 0
  /\ UNCHANGED <<component, executionContext, plannerVars, engineVars,
                 conditionVars, selectorVars,
                 laterVars>>

(* one executeStep call of handleParallel (line 456) *)
Branch(k) == [pc |-> "new", index |-> k - 1, error |-> "null", starts |-> 0]

(* lines 294-296 and 454-457 *)
EnterParallel(x) ==
  /\ turn = x /\ x \in ExecutionIds
  /\ executions[x].pc = "call"
  /\ CurrentStep(x).action = "parallel"
  /\ LET step == CurrentStep(x)
         f == [Frame("parallel", step.steps) EXCEPT
                  !.branches = [k \in 1..Len(step.steps) |-> Branch(k)]]
     IN executions' = [executions EXCEPT ![x].pc = "spawn",
                          ![x].stack = Append(@, f)]
  /\ UNCHANGED <<component, turn, executionContext, plannerVars, engineVars,
                 conditionVars, selectorVars,
                 laterVars>>

NewBranches(f) == {k \in 1..Len(f.branches) : f.branches[k].pc = "new"}

(* lines 455-457: the map calls executeStep on the next sub-step, which    *)
(* runs up to its first await (a sub-step is a setVariable or executor     *)
(* step)                                                                   *)
SpawnBranch(x, throws) ==
  /\ turn = x /\ x \in ExecutionIds
  /\ executions[x].pc = "spawn"
  /\ NewBranches(TopFrame(x)) # {}
  /\ LET f == TopFrame(x)
         k == CHOOSE b \in NewBranches(f) : \A c \in NewBranches(f) : b <= c
         sub == f.body[k]
         started == [f EXCEPT !.branches[k].starts = @ + 1]
     IN IF sub.action = "setVariable"
          THEN executions' =
                 Assigned(Moved(x, "spawn",
                                [started EXCEPT !.branches[k].pc = "completed"]),
                          x, [name \in {sub.variableName} |->
                                Str(resolveValue(sub.value, ContextVariables,
                                                 executionContext.lastResult))])
          ELSE IF sub.action \notin executions[x].executors
            THEN executions' =
                   Moved(x, "spawn",
                         [started EXCEPT !.branches[k].pc = "failed",
                             !.branches[k].error = WfNoExecutorMessage(sub.action)])
            ELSE executions' =
                   [Moved(x, "spawn",
                          IF throws
                            THEN [started EXCEPT !.branches[k].pc = "failed",
                                     !.branches[k].error = ExecutorError]
                            ELSE [started EXCEPT !.branches[k].pc = "await"])
                      EXCEPT ![x].invoked = @ + 1, ![x].lastCall = Invoked(x)]
  /\ UNCHANGED <<component, turn, executionContext, plannerVars, engineVars,
                 conditionVars, selectorVars,
                 laterVars>>

(* line 459: every sub-step is started; handleParallel awaits Promise.all *)
AwaitBranches(x) ==
  /\ turn = x /\ x \in ExecutionIds
  /\ executions[x].pc = "spawn"
  /\ NewBranches(TopFrame(x)) = {}
  /\ executions' = [executions EXCEPT ![x].pc = "join"]
  /\ turn' = 0
  /\ UNCHANGED <<component, executionContext, plannerVars, engineVars,
                 conditionVars, selectorVars,
                 laterVars>>

(* lines 306-315, 322-325 in a sub-step: its executor's promise resolves *)
BranchResolves(x, k) ==
  /\ turn = 0 /\ x \in ExecutionIds
  /\ executions[x].pc = "join"
  /\ k \in 1..Len(TopFrame(x).branches)
  /\ TopFrame(x).branches[k].pc = "await"
  /\ executions' = Moved(x, "join",
                         [TopFrame(x) EXCEPT !.branches[k].pc = "completed"])
  /\ executionContext' = [executionContext EXCEPT !.lastResult = ResultValue(x),
                                                  !.lastResultBy = x]
  /\ UNCHANGED <<component, turn, plannerVars, engineVars, conditionVars, selectorVars,
                 laterVars>>

(* lines 306-309, 317-325 in a sub-step: its executor's promise rejects *)
BranchRejects(x, k) ==
  /\ turn = 0 /\ x \in ExecutionIds
  /\ executions[x].pc = "join"
  /\ k \in 1..Len(TopFrame(x).branches)
  /\ TopFrame(x).branches[k].pc = "await"
  /\ executions' = Moved(x, "join",
                         [TopFrame(x) EXCEPT !.branches[k].pc = "failed",
                                             !.branches[k].error = ExecutorError])
  /\ UNCHANGED <<component, turn, executionContext, plannerVars, engineVars,
                 conditionVars, selectorVars,
                 laterVars>>

Settled(f) == {k \in 1..Len(f.branches) : f.branches[k].pc \in {"completed", "failed"}}

JoinReady_Any(f) == Settled(f) # {}

(* line 459: Promise.all of promises that never reject *)
JoinReady(f) == Settled(f) = 1..Len(f.branches)

(* lines 460-468 *)
Joined(f) ==
  [NoValue EXCEPT
     !.kind = "parallel",
     !.total = Len(f.branches),
     !.completed = Cardinality({k \in 1..Len(f.branches) :
                                  f.branches[k].pc = "completed"}),
     !.failed = Cardinality({k \in 1..Len(f.branches) :
                               f.branches[k].pc = "failed"}),
     !.results = [k \in 1..Len(f.branches) |->
                    [stepIndex |-> f.branches[k].index, action |-> f.body[k].action,
                     status |-> f.branches[k].pc, error |-> f.branches[k].error]]]

(* lines 459-468: handleParallel resumes from Promise.all *)
JoinParallel(x) ==
  /\ turn = 0 /\ x \in ExecutionIds
  /\ executions[x].pc = "join"
  /\ JoinReady(TopFrame(x))
  /\ executions' = [executions EXCEPT ![x].pc = "return",
                                      ![x].ret = Joined(TopFrame(x))]
  /\ turn' = x
  /\ UNCHANGED <<component, executionContext, plannerVars, engineVars,
                 conditionVars, selectorVars,
                 laterVars>>

StepsInit == executions = <<>> /\ executionContext = NoContext

----------------------------------------------------------------------------
(*            SelectorEngine: strings, elements and strategies             *)
(*                                                                         *)
(* src/core/selectors/selector-engine.js.  A string of this component is   *)
(* the sequence of its UTF-16 code units.  An absent (undefined) property  *)
(* of a descriptor or of an element is the empty sequence; the descriptors *)
(* used here have no property that is an empty string.                     *)

(* window.location.hostname: "example.com" *)
Hostname == <<101, 120, 97, 109, 112, 108, 101, 46, 99, 111, 109>>

(* String.prototype.toLowerCase on Basic Latin and Cyrillic capitals *)
toLowerCase(s) ==
  [i \in 1..Len(s) |->
     IF s[i] \in 65..90 \/ s[i] \in 1040..1071 THEN s[i] + 32 ELSE s[i]]

RECURSIVE trimStart(_)
trimStart(s) == IF s # <<>> /\ Head(s) = 32 THEN trimStart(Tail(s)) ELSE s

RECURSIVE trimEnd(_)
trimEnd(s) ==
  IF s # <<>> /\ s[Len(s)] = 32 THEN trimEnd(SubSeq(s, 1, Len(s) - 1)) ELSE s

(* String.prototype.trim, for spaces *)
trim(s) == trimEnd(trimStart(s))

(* String.prototype.includes *)
includes(s, part) == part = <<>> \/ Includes(s, part)

(* ---- the page ---- *)
Null == "null"

(* the elements of the page, in document order *)
Document == <<"e1", "e2", "e3">>

Elements == {Document[i] : i \in 1..Len(Document)}

(* e1: <button id="b" class="btn" aria-label="ok">ok</button>              *)
(* e2: <a style="display:none">no</a>                                      *)
(* e3: <button class="btn" aria-label="ok go">ok</button>                  *)
Element(e) ==
  IF e = "e3"
    THEN [tagName |-> <<66, 85, 84, 84, 79, 78>>, id |-> <<>>, textContent |-> <<111, 107>>,
          classList |-> <<<<98, 116, 110>>>>, ariaLabel |-> <<111, 107, 32, 103, 111>>, displayed |-> TRUE]
  ELSE IF e = "e1"
    THEN [tagName |-> <<66, 85, 84, 84, 79, 78>>, id |-> <<98>>, textContent |-> <<111, 107>>,
          classList |-> <<<<98, 116, 110>>>>, ariaLabel |-> <<111, 107>>, displayed |-> TRUE]
    ELSE [tagName |-> <<65>>, id |-> <<>>, textContent |-> <<110, 111>>,
          classList |-> <<>>, ariaLabel |-> <<>>, displayed |-> FALSE]

DocIndex(e) == CHOOSE i \in 1..Len(Document) : Document[i] = e

(* the first element of a set in document order, null if there is none *)
FirstOf(found) ==
  IF found = {} THEN Null
  ELSE CHOOSE e \in found : \A f \in found : DocIndex(e) <= DocIndex(f)

(* the first result of a list of lookups that is not null *)
FirstFound(results) ==
  IF \A i \in 1..Len(results) : results[i] = Null THEN Null
  ELSE results[CHOOSE i \in 1..Len(results) :
                 results[i] # Null /\ \A j \in 1..(i - 1) : results[j] = Null]

(* ---- descriptors ---- *)
NoDescriptor ==
  [selector |-> <<>>, text |-> <<>>, id |-> <<>>, tagName |-> <<>>,
   classes |-> <<>>, ariaLabel |-> <<>>]

(* the descriptors find is called with: a selector alone; a selector that  *)
(* selects a hidden element; the recorded properties of the button; a text *)
(* in Cyrillic; properties no element has                                  *)
Descriptors ==
  { [NoDescriptor EXCEPT !.selector = <<35, 98>>],
    [NoDescriptor EXCEPT !.selector = <<97>>],
    [NoDescriptor EXCEPT !.text = <<79, 75>>, !.tagName = <<98, 117, 116, 116, 111, 110>>,
                         !.classes = <<<<98, 116, 110>>>>, !.ariaLabel = <<111, 107>>],
    [NoDescriptor EXCEPT !.text = <<1054, 1050>>],
    [NoDescriptor EXCEPT !.text = <<122, 122>>, !.id = <<113>>] }

(* ---- CSS selectors: compound selectors of the forms the engine builds   *)
(* from these descriptors ---- *)
AnyElement ==
  [id |-> <<>>, tag |-> <<>>, classes |-> <<>>, aria |-> <<>>,
   ariaPart |-> <<>>]

Matches(e, sel) ==
  LET el == Element(e)
  IN /\ sel.id # <<>> => el.id = sel.id
     /\ sel.tag # <<>> => toLowerCase(el.tagName) = toLowerCase(sel.tag)
     /\ \A i \in 1..Len(sel.classes) :
          \E j \in 1..Len(el.classList) : el.classList[j] = sel.classes[i]
     /\ sel.aria # <<>> => el.ariaLabel = sel.aria
     /\ sel.ariaPart # <<>> =>
          el.ariaLabel # <<>> /\ includes(el.ariaLabel, sel.ariaPart)

(* context.querySelector(selector), context the document; dom is the set  *)
(* of elements that are in the document                                    *)
querySelector(sel, dom) == FirstOf({e \in dom : Matches(e, sel)})

(* a selector text of a descriptor: "#id" or a type selector *)
ParseSelector(text) ==
  IF Head(text) = 35 THEN [AnyElement EXCEPT !.id = Tail(text)]
  ELSE [AnyElement EXCEPT !.tag = text]

(* lines 190-205; the descriptors have no xpath *)
findByExact(descriptor, dom) ==
  IF descriptor.selector # <<>>
    THEN querySelector(ParseSelector(descriptor.selector), dom)
    ELSE Null

(* lines 263-308, CSS.escape leaves these identifiers as they are; the     *)
(* descriptors have no attributes, placeholder or name                     *)
buildCSSSelectors(descriptor) ==
  (IF descriptor.id # <<>>
     THEN <<[AnyElement EXCEPT !.id = descriptor.id]>> ELSE <<>>)
  \o (IF descriptor.classes # <<>>
        THEN <<[AnyElement EXCEPT !.classes = descriptor.classes]>>
        ELSE <<>>)
  \o (IF descriptor.tagName # <<>>
        THEN <<[AnyElement EXCEPT !.tag = toLowerCase(descriptor.tagName)]>>
             \o (IF descriptor.classes # <<>>
                   THEN <<[AnyElement EXCEPT
                             !.tag = toLowerCase(descriptor.tagName),
                             !.classes = descriptor.classes]>>
                   ELSE <<>>)
        ELSE <<>>)

(* lines 229-240 *)
findByCSS(descriptor, dom) ==
  LET selectors == buildCSSSelectors(descriptor)
  IN FirstFound([i \in 1..Len(selectors) |->
                   querySelector(selectors[i], dom)])

(* lines 358-399, each XPath as the set of elements it selects; text() of  *)
(* an element is its text content                                         *)
buildXPaths(descriptor, dom) ==
  (IF descriptor.id # <<>>
     THEN <<{e \in dom : Element(e).id = descriptor.id}>> ELSE <<>>)
  \o (IF descriptor.text # <<>>
        THEN LET text == trim(descriptor.text)
                 has  == {e \in dom :
                            includes(trim(Element(e).textContent), text)}
             IN << {e \in dom : trim(Element(e).textContent) = text},
                   has, has >>
        ELSE <<>>)
  \o (IF descriptor.tagName # <<>>
        THEN LET tag == toLowerCase(descriptor.tagName)
                 tagged == {e \in dom :
                              toLowerCase(Element(e).tagName) = tag}
             IN <<tagged>>
                \o [i \in 1..Len(descriptor.classes) |->
                      {e \in tagged :
                         \E j \in 1..Len(Element(e).classList) :
                           includes(Element(e).classList[j],
                                    descriptor.classes[i])}]
        ELSE <<>>)

(* lines 311-328 *)
findByXPath(descriptor, dom) ==
  LET xpaths == buildXPaths(descriptor, dom)
  IN FirstFound([i \in 1..Len(xpaths) |-> FirstOf(xpaths[i])])

(* lines 402-439; every element of the page is a leaf element *)
findByText(descriptor, dom) ==
  IF descriptor.text = <<>> THEN Null
  ELSE
    LET text == toLowerCase(trim(descriptor.text))
        filtered == {e \in dom :
                       descriptor.tagName # <<>> =>
                         toLowerCase(Element(e).tagName)
                           = toLowerCase(descriptor.tagName)}
        nodeText(e) == toLowerCase(trim(Element(e).textContent))
    IN FirstFound(<< FirstOf({e \in filtered : nodeText(e) = text}),
                     FirstOf({e \in filtered : includes(nodeText(e), text)})
                  >>)

(* lines 460-506; the descriptors have no role, ariaDescribedBy or         *)
(* ariaLabelledBy, and `button:has-text(...)` is no valid selector         *)
findByAria(descriptor, dom) ==
  LET selectors ==
        (IF descriptor.ariaLabel # <<>>
           THEN << [AnyElement EXCEPT !.aria = descriptor.ariaLabel],
                   [AnyElement EXCEPT !.ariaPart = descriptor.ariaLabel] >>
           ELSE <<>>)
        \o (IF descriptor.text # <<>>
              THEN <<[AnyElement EXCEPT !.ariaPart = descriptor.text]>>
              ELSE <<>>)
      labelled ==
        IF descriptor.text = <<>> THEN {}
        ELSE {e \in dom :
                /\ Element(e).ariaLabel # <<>>
                /\ includes(toLowerCase(Element(e).ariaLabel),
                            toLowerCase(descriptor.text))}
  IN FirstFound([i \in 1..Len(selectors) |->
                   querySelector(selectors[i], dom)]
                \o <<FirstOf(labelled)>>)

(* line 533: the descriptors have no dataAttributes *)
findByDataAttr(descriptor, dom) == Null

(* line 591: the descriptors have no visual *)
findByVisual(descriptor, dom) == Null

(* isVisible, lines 1047-1057 *)
isVisible(e) == e # Null /\ Element(e).displayed

(* ---- the fuzzy score, in units of 1/6000 (0.3 is 1800) ---- *)

(* lines 858-883 *)
levenshteinDistance(str1, str2) ==
  LET matrix[i \in 0..Len(str2), j \in 0..Len(str1)] ==
        IF i = 0 THEN j
        ELSE IF j = 0 THEN i
        ELSE IF str2[i] = str1[j] THEN matrix[i - 1, j - 1]
        ELSE LET a == matrix[i - 1, j - 1] + 1
                 b == matrix[i, j - 1] + 1
                 d == matrix[i - 1, j] + 1
                 ab == IF a <= b THEN a ELSE b
             IN IF ab <= d THEN ab ELSE d
  IN matrix[Len(str2), Len(str1)]

(* lines 839-856: the similarity as the fraction num / den *)
stringSimilarity(str1, str2) ==
  IF str1 = str2 THEN [num |-> 1, den |-> 1]
  ELSE IF str1 = <<>> \/ str2 = <<>> THEN [num |-> 0, den |-> 1]
  ELSE IF includes(str1, str2) \/ includes(str2, str1)
    THEN [num |-> 4, den |-> 5]
  ELSE LET longer  == IF Len(str1) > Len(str2) THEN str1 ELSE str2
           shorter == IF Len(str1) > Len(str2) THEN str2 ELSE str1
       IN [num |-> Len(longer) - levenshteinDistance(longer, shorter),
           den |-> Len(longer)]

(* the number of descriptor classes the element has, in halves: 2 for a    *)
(* class it has, 1 for one that contains or is contained in one it has     *)
classMatches(classList, classes) ==
  LET halves(cls) ==
        IF \E j \in 1..Len(classList) : classList[j] = cls THEN 2
        ELSE IF \E j \in 1..Len(classList) :
                  includes(classList[j], cls) \/ includes(cls, classList[j])
          THEN 1
        ELSE 0
      sum[i \in 0..Len(classes)] ==
        IF i = 0 THEN 0 ELSE sum[i - 1] + halves(classes[i])
  IN sum[Len(classes)]

(* lines 777-837; the descriptors have no attributes.  `score / factors *  *)
(* factors` is the score; the arithmetic is exact here                     *)
calculateFuzzyScore(e, descriptor) ==
  LET el == Element(e)
      textSimilarity ==
        stringSimilarity(toLowerCase(el.textContent),
                         toLowerCase(descriptor.text))
      ariaSimilarity ==
        stringSimilarity(toLowerCase(el.ariaLabel),
                         toLowerCase(descriptor.ariaLabel))
  IN (IF descriptor.text # <<>>
        THEN (1800 * textSimilarity.num) \div textSimilarity.den ELSE 0)
     + (IF descriptor.classes # <<>>
          THEN (1200 * classMatches(el.classList, descriptor.classes))
                 \div (2 * Len(descriptor.classes))
          ELSE 0)
     + (IF /\ descriptor.tagName # <<>>
           /\ toLowerCase(el.tagName) = toLowerCase(descriptor.tagName)
          THEN 900 ELSE 0)
     + (IF descriptor.ariaLabel # <<>>
          THEN (900 * ariaSimilarity.num) \div ariaSimilarity.den ELSE 0)

(* line 1082 *)
calculateConfidence(e, descriptor) == calculateFuzzyScore(e, descriptor)

(* this.confidenceThreshold, in hundredths *)
confidenceThreshold == 70

(* score >= this.confidenceThreshold *)
ReachesThreshold(score) == score >= confidenceThreshold * 60

(* /^(click|submit|send|save|ok|cancel)/i, line 766 *)
ButtonWords ==
  { <<99, 108, 105, 99, 107>>, <<115, 117, 98, 109, 105, 116>>, <<115, 101, 110, 100>>, <<115, 97, 118, 101>>, <<111, 107>>,
    <<99, 97, 110, 99, 101, 108>> }

(* lines 761-775; the descriptors have no role or type *)
getCandidates(descriptor, dom) ==
  LET lower == toLowerCase(descriptor.text)
      selected ==
        IF descriptor.tagName # <<>>
          THEN {e \in dom :
                  toLowerCase(Element(e).tagName)
                    = toLowerCase(descriptor.tagName)}
        ELSE IF \E word \in ButtonWords :
                  /\ Len(word) <= Len(lower)
                  /\ SubSeq(lower, 1, Len(word)) = word
          THEN {e \in dom :
                  toLowerCase(Element(e).tagName) \in {<<98, 117, 116, 116, 111, 110>>, <<97>>}}
        ELSE dom
  IN {e \in selected : isVisible(e)}

(* lines 730-745: the first candidate with the highest score above 0, if   *)
(* that score reaches the threshold                                        *)
findByFuzzy(descriptor, dom) ==
  LET candidates == {e \in getCandidates(descriptor, dom) :
                       calculateFuzzyScore(e, descriptor) > 0}
      best == CHOOSE e \in candidates :
                \A f \in candidates :
                  \/ calculateFuzzyScore(e, descriptor)
                       > calculateFuzzyScore(f, descriptor)
                  \/ /\ calculateFuzzyScore(e, descriptor)
                          = calculateFuzzyScore(f, descriptor)
                     /\ DocIndex(e) <= DocIndex(f)
  IN IF candidates # {}
        /\ ReachesThreshold(calculateFuzzyScore(best, descriptor))
       THEN best ELSE Null

(* this.strategies, lines 18-27 *)
strategies ==
  <<"exact", "css", "xpath", "text", "aria", "dataAttr", "visual", "fuzzy">>

(* lines 143-164 *)
tryStrategy(strategy, descriptor, dom) ==
  CASE strategy = "exact"    -> findByExact(descriptor, dom)
    [] strategy = "css"      -> findByCSS(descriptor, dom)
    [] strategy = "xpath"    -> findByXPath(descriptor, dom)
    [] strategy = "text"     -> findByText(descriptor, dom)
    [] strategy = "aria"     -> findByAria(descriptor, dom)
    [] strategy = "dataAttr" -> findByDataAttr(descriptor, dom)
    [] strategy = "visual"   -> findByVisual(descriptor, dom)
    [] strategy = "fuzzy"    -> findByFuzzy(descriptor, dom)
    [] OTHER                 -> Null

(* lines 1066-1074 *)
matchesDescriptor(e, descriptor) ==
  /\ descriptor.tagName # <<>> =>
       toLowerCase(Element(e).tagName) = toLowerCase(descriptor.tagName)
  /\ descriptor.id # <<>> => Element(e).id = descriptor.id

(* lines 1076-1080; null stands for the element an entry loaded from the   *)
(* store does not have                                                     *)
validateElement(e, descriptor, dom) ==
  /\ e # Null /\ e \in dom
  /\ isVisible(e)
  /\ matchesDescriptor(e, descriptor)

(* ---- the cache key ---- *)

(* a JSON string literal: quotes and backslashes are escaped *)
Quoted(s) ==
  <<34>>
  \o Flatten([i \in 1..Len(s) |->
                IF s[i] = 34 \/ s[i] = 92 THEN <<92, s[i]>> ELSE <<s[i]>>])
  \o <<34>>

(* JSON.stringify of an object with these properties in this order; a      *)
(* property that is undefined is left out                                  *)
stringify(properties) ==
  LET present == SelectSeq(properties, LAMBDA p : p.value # <<>>)
      member(i) == (IF i = 1 THEN <<>> ELSE <<44>>)
                   \o Quoted(present[i].name) \o <<58>>
                   \o Quoted(present[i].value)
  IN <<123>> \o Flatten([i \in 1..Len(present) |-> member(i)]) \o <<125>>

(* btoa throws InvalidCharacterError on a code unit above 0xFF *)
btoaThrows(s) == \E i \in 1..Len(s) : s[i] > 255

(* the character of a 6-bit value in the base64 alphabet *)
Base64Char(v) ==
  IF v < 26 THEN 65 + v
  ELSE IF v < 52 THEN 97 + (v - 26)
  ELSE IF v < 62 THEN 48 + (v - 52)
  ELSE IF v = 62 THEN 43 ELSE 47

(* btoa of a string of code units below 256 *)
btoa(s) ==
  LET byte(i) == IF i <= Len(s) THEN s[i] ELSE 0
      char(k) ==
        LET g == (k - 1) \div 4
            p == (k - 1) % 4
            triple == byte(3 * g + 1) * 65536 + byte(3 * g + 2) * 256
                      + byte(3 * g + 3)
        IN IF (p = 2 /\ 3 * g + 2 > Len(s)) \/ (p = 3 /\ 3 * g + 3 > Len(s))
             THEN 61
           ELSE Base64Char(CASE p = 0 -> triple \div 262144
                             [] p = 1 -> (triple \div 4096) % 64
                             [] p = 2 -> (triple \div 64) % 64
                             [] OTHER -> triple % 64)
  IN [k \in 1..(4 * ((Len(s) + 2) \div 3)) |-> char(k)]

(* the length of a cache key, line 1096 *)
KeyLength == 50

(* the text getCacheKey encodes, lines 1089-1095 *)
KeyText(descriptor) ==
  stringify(<< [name |-> <<117, 114, 108>>, value |-> Hostname],
               [name |-> <<115, 101, 108, 101, 99, 116, 111, 114>>, value |-> descriptor.selector],
               [name |-> <<116, 101, 120, 116>>, value |-> descriptor.text],
               [name |-> <<105, 100>>, value |-> descriptor.id] >>)

(* lines 1088-1097, for a descriptor btoa does not throw on *)
getCacheKey(descriptor) ==
  LET encoded == btoa(KeyText(descriptor))
  IN SubSeq(encoded, 1,
            IF Len(encoded) < KeyLength THEN Len(encoded) ELSE KeyLength)

----------------------------------------------------------------------------
(*                SelectorEngine: find, the cache, learning                *)
(*                                                                         *)
(* find runs synchronously up to its first `await this.tryStrategy(...)`;  *)
(* the strategy itself runs synchronously inside that call, and what it    *)
(* returned or threw is handed to find when the await resumes.  Between a  *)
(* call and its resumption only other resumptions can run; the page and    *)
(* the clock change only while no call is waiting for one.  The wait       *)
(* between two attempts (line 82) is a timer.  The cache and the learning  *)
(* data start empty (nothing in chrome.storage), and persistCache and      *)
(* persistLearning, which catch their own errors, are left out.            *)

(* this.cacheTTL, line 30, in hours: the clock counts hours *)
CacheTTL == 24

MaxFinds == 2      \* calls of find in a behaviour
MaxPending == 1    \* calls of find that have not settled, at any time
MaxRetries == 2    \* options.retries is in 1..MaxRetries
MaxHours == 36     \* the clock stops here

Strategies == {strategies[i] : i \in 1..Len(strategies)}

NoLearning == [s \in Strategies |-> [successes |-> 0, attempts |-> 0]]

(* the hostnames this.learningData has a record of: window.location.hostname *)
(* of the page, and other.org                                              *)
OtherHostname == <<111, 116, 104, 101, 114, 46, 111, 114, 103>>
Hostnames == {Hostname, OtherHostname}

(* `learned[a]?.successRate || 0.5`, lines 1164-1165, as a fraction *)
SuccessRate(learned, s) ==
  IF learned[s].attempts = 0 \/ learned[s].successes = 0
    THEN [num |-> 1, den |-> 2]
    ELSE [num |-> learned[s].successes, den |-> learned[s].attempts]

(* the strategies are tried in the order of this.strategies whatever was   *)
(* learned                                                                 *)
getOptimizedStrategies_Fixed(learned) == strategies

(* lines 1158-1168: this.strategies sorted by success rate, highest first; *)
(* Array.prototype.sort is stable                                          *)
getOptimizedStrategies(learned) ==
  LET n == Len(strategies)
      before(i, j) ==
        LET a == SuccessRate(learned, strategies[i])
            b == SuccessRate(learned, strategies[j])
        IN \/ a.num * b.den > b.num * a.den
           \/ a.num * b.den = b.num * a.den /\ i < j
      place(i) == 1 + Cardinality({j \in 1..n : before(j, i)})
  IN [k \in 1..n |-> strategies[CHOOSE i \in 1..n : place(i) = k]]

(* a success that is recorded together with two failed attempts *)
recordSuccess_WithFailures(learned, strategy) ==
  [learned EXCEPT ![strategy] = [successes |-> @.successes + 1,
                                 attempts  |-> @.attempts + 3]]

(* a success that is recorded for every strategy *)
recordSuccess_EveryStrategy(learned, strategy) ==
  [s \in Strategies |-> [successes |-> learned[s].successes + 1,
                         attempts  |-> learned[s].attempts + 1]]

(* recordSuccess, lines 1170-1188 *)
recordSuccess(learned, strategy) ==
  [learned EXCEPT ![strategy] = [successes |-> @.successes + 1,
                                 attempts  |-> @.attempts + 1]]

(* the entries of this.cache under a key: none or one *)
CacheEntries(key) == {c \in cache : c.key = key}

(* an entry that is kept for ever *)
Expired_Never(c) == FALSE

(* line 1103 *)
Expired(c) == now - c.timestamp > CacheTTL

(* cacheResult, lines 1111-1117 *)
cacheResult(key, element, strategy, confidence) ==
  (cache \ CacheEntries(key))
  \cup {[key |-> key, element |-> element, strategy |-> strategy,
         confidence |-> confidence, timestamp |-> now]}

NoPending == [kind |-> "none", element |-> Null]

(* a call of find.  pc: "await" (line 62), "delay" (line 82), "returned",  *)
(* "rejected".  attempt and index are the loop variables (index counts     *)
(* from 1); pending is what the awaited tryStrategy returned or threw.     *)
(* fromCache, confidence (of the returned element for the descriptor),     *)
(* matched (a strategy returned an element), threw (a strategy threw),     *)
(* trials (the calls of tryStrategy made) and waited (the delays awaited   *)
(* at line 82, in ms, oldest first) record what happened.                  *)
NewFind(descriptor, strict, retries) ==
  [descriptor |-> descriptor, strict |-> strict, retries |-> retries,
   pc |-> "rejected", cacheKey |-> <<>>, orderedStrategies |-> <<>>,
   attempt |-> 0, index |-> 1, pending |-> NoPending, result |-> Null,
   fromCache |-> FALSE, confidence |-> 0, matched |-> FALSE,
   threw |-> FALSE, trials |-> 0, waited |-> <<>>]

FindIds == 1..Len(finds)

SettledPc == {"returned", "rejected"}

CanFind ==
  /\ Len(finds) < MaxFinds
  /\ Cardinality({c \in FindIds : finds[c].pc \notin SettledPc}) < MaxPending

(* no resumption is queued: a task can run *)
NoneAwaiting == \A c \in FindIds : finds[c].pc # "await"

(* line 62: the call of the strategy at call.index *)
Called(call, throws) ==
  LET element == tryStrategy(call.orderedStrategies[call.index],
                             call.descriptor, connected)
  IN [call EXCEPT
        !.pc = "await",
        !.pending = IF throws THEN [kind |-> "throw", element |-> Null]
                    ELSE [kind |-> "value", element |-> element],
        !.threw = @ \/ throws,
        !.matched = @ \/ (~throws /\ element # Null),
        !.trials = @ + 1]

(* lines 50-54: the cache has a fresh entry whose element is valid *)
CacheHit(descriptor) ==
  \E c \in CacheEntries(getCacheKey(descriptor)) :
    ~Expired(c) /\ validateElement(c.element, descriptor, connected)

(* find, line 50: getCacheKey throws *)
FindThrows(descriptor, strict, retries) ==
  /\ CanFind
  /\ btoaThrows(KeyText(descriptor))
  /\ finds' = Append(finds, NewFind(descriptor, strict, retries))
  /\ UNCHANGED <<component, turn, cache, learningData, connected, now,
                 plannerVars, engineVars, stepsVars, conditionVars,
                 laterVars>>

(* find, lines 50-54: the cached element is returned *)
FindCached(descriptor, strict, retries) ==
  /\ CanFind
  /\ ~btoaThrows(KeyText(descriptor))
  /\ CacheHit(descriptor)
  /\ LET key == getCacheKey(descriptor)
         cached == CHOOSE c \in CacheEntries(key) : TRUE
     IN finds' = Append(finds,
          [NewFind(descriptor, strict, retries) EXCEPT
             !.pc = "returned", !.cacheKey = key,
             !.result = cached.element, !.fromCache = TRUE,
             !.confidence = calculateConfidence(cached.element, descriptor)])
  /\ UNCHANGED <<component, turn, cache, learningData, connected, now,
                 plannerVars, engineVars, stepsVars, conditionVars,
                 laterVars>>

(* find, lines 50-62: no usable cache entry (an expired one is deleted by  *)
(* getFromCache), the first strategy is called                             *)
FindSearches(descriptor, strict, retries, throws) ==
  /\ CanFind
  /\ ~btoaThrows(KeyText(descriptor))
  /\ ~CacheHit(descriptor)
  /\ LET key == getCacheKey(descriptor)
     IN /\ cache' = cache \ {c \in CacheEntries(key) : Expired(c)}
        /\ finds' = Append(finds,
             Called([NewFind(descriptor, strict, retries) EXCEPT
                       !.cacheKey = key,
                       !.orderedStrategies =
                          getOptimizedStrategies(learningData[Hostname])],
                    throws))
  /\ UNCHANGED <<component, turn, learningData, connected, now,
                 plannerVars, engineVars, stepsVars, conditionVars,
                 laterVars>>

(* lines 64-67: the strategy returned an element that find accepts *)
Accepted(call) ==
  /\ call.pending.kind = "value"
  /\ call.pending.element # Null
  /\ \/ ReachesThreshold(calculateConfidence(call.pending.element,
                                            call.descriptor))
     \/ ~call.strict

(* lines 64-74: the element is cached, the success recorded, and returned *)
AcceptElement(c) ==
  /\ c \in FindIds
  /\ finds[c].pc = "await"
  /\ Accepted(finds[c])
  /\ LET call == finds[c]
         element == call.pending.element
         strategy == call.orderedStrategies[call.index]
         confidence == calculateConfidence(element, call.descriptor)
     IN /\ cache' = cacheResult(call.cacheKey, element, strategy, confidence)
        /\ learningData' = [learningData EXCEPT
                              ![Hostname] = recordSuccess(@, strategy)]
        /\ finds' = [finds EXCEPT ![c] =
                       [call EXCEPT !.pc = "returned", !.result = element,
                                    !.confidence = confidence,
                                    !.pending = NoPending]]
  /\ UNCHANGED <<component, turn, connected, now,
                 plannerVars, engineVars, stepsVars, conditionVars,
                 laterVars>>

(* lines 61-79: nothing accepted (null, a rejected candidate, or an error  *)
(* caught at line 76), the next strategy of the attempt is called          *)
NextStrategy(c, throws) ==
  /\ c \in FindIds
  /\ finds[c].pc = "await"
  /\ ~Accepted(finds[c])
  /\ finds[c].index < Len(finds[c].orderedStrategies)
  /\ finds' = [finds EXCEPT ![c] =
                 Called([@ EXCEPT !.index = @ + 1], throws)]
  /\ UNCHANGED <<component, turn, cache, learningData, connected, now,
                 plannerVars, engineVars, stepsVars, conditionVars,
                 laterVars>>

RetryDelayMs == 500

(* every delay is the first one *)
RetryDelay_Constant(attempt) == RetryDelayMs

(* line 82: 500 * (attempt + 1) *)
RetryDelay(attempt) == RetryDelayMs * (attempt + 1)

(* lines 81-84: the attempt is over and another one follows *)
StartDelay(c) ==
  /\ c \in FindIds
  /\ finds[c].pc = "await"
  /\ ~Accepted(finds[c])
  /\ finds[c].index = Len(finds[c].orderedStrategies)
  /\ finds[c].attempt < finds[c].retries - 1
  /\ finds' = [finds EXCEPT
                 ![c].pc = "delay", ![c].pending = NoPending,
                 ![c].waited = Append(@, RetryDelay(finds[c].attempt))]
  /\ UNCHANGED <<component, turn, cache, learningData, connected, now,
                 plannerVars, engineVars, stepsVars, conditionVars,
                 laterVars>>

(* line 87: the last attempt is over *)
ReturnNull(c) ==
  /\ c \in FindIds
  /\ finds[c].pc = "await"
  /\ ~Accepted(finds[c])
  /\ finds[c].index = Len(finds[c].orderedStrategies)
  /\ ~(finds[c].attempt < finds[c].retries - 1)
  /\ finds' = [finds EXCEPT ![c].pc = "returned", ![c].result = Null,
                            ![c].pending = NoPending]
  /\ UNCHANGED <<component, turn, cache, learningData, connected, now,
                 plannerVars, engineVars, stepsVars, conditionVars,
                 laterVars>>

(* line 82 resumes: the next attempt calls its first strategy *)
DelayElapsed(c, throws) ==
  /\ c \in FindIds
  /\ finds[c].pc = "delay"
  /\ NoneAwaiting
  /\ finds' = [finds EXCEPT ![c] =
                 Called([@ EXCEPT !.attempt = @ + 1, !.index = 1], throws)]
  /\ UNCHANGED <<component, turn, cache, learningData, connected, now,
                 plannerVars, engineVars, stepsVars, conditionVars,
                 laterVars>>

(* the page removes an element from the document *)
RemoveElement(e) ==
  /\ e \in connected
  /\ NoneAwaiting
  /\ connected' = connected \ {e}
  /\ UNCHANGED <<component, turn, cache, learningData, now, finds,
                 plannerVars, engineVars, stepsVars, conditionVars,
                 laterVars>>

(* eighteen hours pass *)
Elapse ==
  /\ now + 18 <= MaxHours
  /\ NoneAwaiting
  /\ now' = now + 18
  /\ UNCHANGED <<component, turn, cache, learningData, connected, finds,
                 plannerVars, engineVars, stepsVars, conditionVars,
                 laterVars>>

(* the page find is called on: e1 and e2 *)
PageOfFind == {"e1", "e2"}

NoFindAll ==
  [done |-> FALSE, descriptor |-> NoDescriptor, limit |-> 0,
   throwing |-> {}, page |-> {}, results |-> <<>>, returned |-> <<>>]

FindAllIdle == allFound = NoFindAll

NoWait == [done |-> FALSE, input |-> <<>>, number |-> 0, unit |-> <<>>,
           duration |-> 0]

WaitIdle == waitCall = NoWait

(* src/background.js lines 26-30, before the first connectToWebSocket().   *)
(*   ws               readyState of the socket `ws` refers to, or "null"    *)
(*   closing          sockets `ws` no longer refers to whose close event    *)
(*                    is still to come (closed by the RECONNECT handler)    *)
(*   reconnectTimeout "null", or whether the timer it names is "pending"    *)
(*                    (then the last of timers) or has "fired"              *)
(*   timers           the pending setTimeout timers, oldest first; k is     *)
(*                    history: the attempts scheduled before it since the   *)
(*                    last open or manual reconnect                         *)
(*   consecutive      history: attempts scheduled since the last open or    *)
(*                    manual reconnect                                      *)
(*   manual           history: RECONNECT messages handled                   *)
NoSocket ==
  [ws |-> "null", closing |-> 0, isConnected |-> FALSE,
   reconnectAttempts |-> 0, reconnectTimeout |-> "null", timers |-> <<>>,
   consecutive |-> 0, manual |-> 0]

SocketIdle == socket = NoSocket

NoTable == [headerTag |-> "th", header |-> <<>>, rows |-> <<>>]

NoTableCall ==
  [done |-> FALSE, table |-> NoTable, found |-> FALSE, headers |-> <<>>,
   data |-> <<>>]

TableIdle == tableCall = NoTableCall

(* A value resolveValue is given: null, undefined, a number, a string (its *)
(* symbols in s), an array (its elements in items) or a plain object (its  *)
(* keys and, in the same order, their values in items).                    *)
Leaf(type, s) == [t |-> type, s |-> s, items |-> <<>>, keys |-> <<>>]
ArrayOfValues(items) == [t |-> "array", s |-> <<>>, items |-> items, keys |-> <<>>]
ObjectOf(keys, items) == [t |-> "object", s |-> <<>>, items |-> items, keys |-> keys]

NoResolveCall ==
  [done |-> FALSE, value |-> Leaf("null", <<>>), input |-> Leaf("null", <<>>),
   variables |-> <<>>, variablesBefore |-> <<>>,
   lastResult |-> [circular |-> FALSE, json |-> <<>>],
   result |-> Leaf("null", <<>>)]

ResolveIdle == resolveCall = NoResolveCall

(* pendingCommands (line 31) and, as history, the messages given to        *)
(* ws.send (sent), the messages sendToWebSocket was called with by the     *)
(* worker (made, numbered in the order of the calls) and those of them     *)
(* that were queued by that call (queued)                                  *)
NoOutbox == [pendingCommands |-> <<>>, sent |-> <<>>, made |-> <<>>, queued |-> <<>>]

OutboxIdle == outbox = NoOutbox

(* the components modelled further down have not been used *)
LaterIdle ==
  FindAllIdle /\ WaitIdle /\ SocketIdle /\ TableIdle /\ ResolveIdle
    /\ OutboxIdle

(* a new SelectorEngine on a page *)
SelectorIdleOn(page) ==
  /\ cache = {}
  /\ learningData = [h \in Hostnames |-> NoLearning]
  /\ connected = page
  /\ now = 0
  /\ finds = <<>>

SelectorIdle == SelectorIdleOn(PageOfFind)

SelectorNext ==
  \/ \E d \in Descriptors, strict \in BOOLEAN, retries \in 1..MaxRetries :
       FindThrows(d, strict, retries)
  \/ \E d \in Descriptors, strict \in BOOLEAN, retries \in 1..MaxRetries :
       FindCached(d, strict, retries)
  \/ \E d \in Descriptors, strict \in BOOLEAN, retries \in 1..MaxRetries,
        throws \in BOOLEAN :
       FindSearches(d, strict, retries, throws)
  \/ \E c \in 1..MaxFinds : AcceptElement(c)
  \/ \E c \in 1..MaxFinds, throws \in BOOLEAN : NextStrategy(c, throws)
  \/ \E c \in 1..MaxFinds : StartDelay(c)
  \/ \E c \in 1..MaxFinds : ReturnNull(c)
  \/ \E c \in 1..MaxFinds, throws \in BOOLEAN : DelayElapsed(c, throws)
  \/ \E e \in Elements : RemoveElement(e)
  \/ Elapse

SelectorOnlyInit ==
  /\ component = "selector" /\ turn = 0
  /\ PlannerInit /\ EngineInit /\ StepsInit /\ ConditionIdle /\ SelectorIdle /\ LaterIdle

(* calls of find on one page *)
SelectorSpec == SelectorOnlyInit /\ [][SelectorNext]_vars

(* calls of find on a page that does not change, in less time than the     *)
(* cache keeps an entry                                                    *)
StaticPageNext ==
  \/ \E d \in Descriptors, strict \in BOOLEAN, retries \in 1..MaxRetries :
       FindThrows(d, strict, retries)
  \/ \E d \in Descriptors, strict \in BOOLEAN, retries \in 1..MaxRetries :
       FindCached(d, strict, retries)
  \/ \E d \in Descriptors, strict \in BOOLEAN, retries \in 1..MaxRetries,
        throws \in BOOLEAN :
       FindSearches(d, strict, retries, throws)
  \/ \E c \in 1..MaxFinds : AcceptElement(c)
  \/ \E c \in 1..MaxFinds, throws \in BOOLEAN : NextStrategy(c, throws)
  \/ \E c \in 1..MaxFinds : StartDelay(c)
  \/ \E c \in 1..MaxFinds : ReturnNull(c)
  \/ \E c \in 1..MaxFinds, throws \in BOOLEAN : DelayElapsed(c, throws)

StaticPageSpec == SelectorOnlyInit /\ [][StaticPageNext]_vars

(* descriptors with the selector `button` that differ in text or id, one  *)
(* with another selector and one btoa throws on                            *)
KeyDescriptors ==
  { [NoDescriptor EXCEPT !.selector = <<98, 117, 116, 116, 111, 110>>],
    [NoDescriptor EXCEPT !.selector = <<98, 117, 116, 116, 111, 110>>, !.text = <<111, 107>>],
    [NoDescriptor EXCEPT !.selector = <<98, 117, 116, 116, 111, 110>>, !.text = <<110, 111>>],
    [NoDescriptor EXCEPT !.selector = <<98, 117, 116, 116, 111, 110>>, !.id = <<98>>],
    [NoDescriptor EXCEPT !.selector = <<35, 98>>],
    [NoDescriptor EXCEPT !.text = <<1054, 1050>>] }

CacheKeyNext ==
  \/ \E d \in KeyDescriptors, strict \in BOOLEAN, retries \in 1..MaxRetries :
       FindThrows(d, strict, retries)
  \/ \E d \in KeyDescriptors, strict \in BOOLEAN, retries \in 1..MaxRetries :
       FindCached(d, strict, retries)
  \/ \E d \in KeyDescriptors, strict \in BOOLEAN, retries \in 1..MaxRetries,
        throws \in BOOLEAN :
       FindSearches(d, strict, retries, throws)
  \/ \E c \in 1..MaxFinds : AcceptElement(c)
  \/ \E c \in 1..MaxFinds, throws \in BOOLEAN : NextStrategy(c, throws)
  \/ \E c \in 1..MaxFinds : StartDelay(c)
  \/ \E c \in 1..MaxFinds : ReturnNull(c)
  \/ \E c \in 1..MaxFinds, throws \in BOOLEAN : DelayElapsed(c, throws)

(* calls of find with descriptors that have their selector in common *)
CacheKeySpec == SelectorOnlyInit /\ [][CacheKeyNext]_vars

MaxPasses == 3     \* options.retries is in 1..MaxPasses in RetrySpec

(* a step of call c of find: a settled await resumes the function *)
FindStep(c) ==
  \/ AcceptElement(c)
  \/ \E throws \in BOOLEAN : NextStrategy(c, throws)
  \/ StartDelay(c)
  \/ ReturnNull(c)
  \/ \E throws \in BOOLEAN : DelayElapsed(c, throws)

(* a descriptor the page has an element for, one it has none for and one  *)
(* btoa throws on                                                          *)
RetryDescriptors ==
  { [NoDescriptor EXCEPT !.selector = <<35, 98>>],
    [NoDescriptor EXCEPT !.text = <<122, 122>>, !.id = <<113>>],
    [NoDescriptor EXCEPT !.text = <<1054, 1050>>] }

RetryNext ==
  \/ \E d \in RetryDescriptors, strict \in BOOLEAN, retries \in 1..MaxPasses :
       FindThrows(d, strict, retries)
  \/ \E d \in RetryDescriptors, strict \in BOOLEAN, retries \in 1..MaxPasses :
       FindCached(d, strict, retries)
  \/ \E d \in RetryDescriptors, strict \in BOOLEAN, retries \in 1..MaxPasses,
        throws \in BOOLEAN :
       FindSearches(d, strict, retries, throws)
  \/ \E c \in 1..MaxFinds : AcceptElement(c)
  \/ \E c \in 1..MaxFinds, throws \in BOOLEAN : NextStrategy(c, throws)
  \/ \E c \in 1..MaxFinds : StartDelay(c)
  \/ \E c \in 1..MaxFinds : ReturnNull(c)
  \/ \E c \in 1..MaxFinds, throws \in BOOLEAN : DelayElapsed(c, throws)

(* calls of find with up to the default number of retries on a page that   *)
(* does not change.  Every strategy is a synchronous search whose promise   *)
(* is settled when it is awaited (lines 144-165) and the timer of delay    *)
(* (lines 1225-1227) fires, so a call that can resume does.                *)
RetrySpec ==
  /\ SelectorOnlyInit
  /\ [][RetryNext]_vars
  /\ \A c \in 1..MaxFinds : WF_vars(FindStep(c))

MaxSuccesses == 3  \* successes recorded in a behaviour of LearningSpec

(* the successes recorded so far *)
SuccessesRecorded ==
  LET sum[i \in 0..Len(strategies)] ==
        IF i = 0 THEN 0
        ELSE sum[i - 1] + learningData[Hostname][strategies[i]].successes
  IN sum[Len(strategies)]

(* recordSuccess(descriptor, strategy), lines 1170-1188, called for a      *)
(* strategy that found an element on some page                             *)
RecordSuccess(strategy) ==
  /\ SuccessesRecorded < MaxSuccesses
  /\ learningData' = [learningData EXCEPT
                              ![Hostname] = recordSuccess(@, strategy)]
  /\ UNCHANGED <<component, turn, cache, connected, now, finds,
                 plannerVars, engineVars, stepsVars, conditionVars,
                 laterVars>>

(* successes recorded for any strategy, and calls of find that order the   *)
(* strategies by what was learned                                          *)
LearningNext ==
  \/ \E s \in Strategies : RecordSuccess(s)
  \/ \E d \in Descriptors, strict \in BOOLEAN, retries \in 1..MaxRetries,
        throws \in BOOLEAN :
       FindSearches(d, strict, retries, throws)

LearningSpec == SelectorOnlyInit /\ [][LearningNext]_vars

----------------------------------------------------------------------------
----------------------------------------------------------------------------
(*                        SelectorEngine: findAll                          *)
(*                                                                         *)
(* findAll reads the page only; it awaits the (already settled) result of  *)
(* each tryStrategyAll, and the page cannot change in between, so a call   *)
(* is one step.                                                            *)

MaxLimit == 2          \* options.limit is in 0..MaxLimit, or left out

(* the default of options.limit, line 98 *)
DefaultLimit == 100

(* the descriptors findAll is called with: those of find, and one whose    *)
(* ariaLabel is that of e3                                                 *)
FindAllDescriptors ==
  Descriptors
  \cup { [NoDescriptor EXCEPT !.text = <<111, 107>>, !.tagName = <<98, 117, 116, 116, 111, 110>>,
                              !.classes = <<<<98, 116, 110>>>>,
                              !.ariaLabel = <<111, 107, 32, 103, 111>>] }

(* the elements of a set, in document order: querySelectorAll *)
InOrder(found) ==
  [k \in 1..Cardinality(found) |->
     CHOOSE e \in found :
       Cardinality({f \in found : DocIndex(f) < DocIndex(e)}) = k - 1]

(* a list without the repetitions of its elements: the `seen` sets *)
Distinct(list) ==
  LET first(i) == \A j \in 1..(i - 1) : list[j] # list[i]
      kept == {i \in 1..Len(list) : first(i)}
  IN [k \in 1..Cardinality(kept) |->
        list[CHOOSE i \in kept :
               Cardinality({j \in kept : j < i}) = k - 1]]

(* Array.prototype.sort with (a, b) => b.confidence - a.confidence, which  *)
(* is stable                                                               *)
SortByConfidence_Unsorted(results) == results

SortByConfidence(results) ==
  LET n == Len(results)
      before(i, j) ==
        \/ results[i].confidence > results[j].confidence
        \/ results[i].confidence = results[j].confidence /\ i < j
      place(i) == 1 + Cardinality({j \in 1..n : before(j, i)})
  IN [k \in 1..n |-> results[CHOOSE i \in 1..n : place(i) = k]]

(* lines 207-226; the descriptors have no xpath *)
findAllByExact(descriptor, dom) ==
  IF descriptor.selector # <<>>
    THEN InOrder({e \in dom :
                    Matches(e, ParseSelector(descriptor.selector))})
    ELSE <<>>

(* lines 242-261 *)
findAllByCSS(descriptor, dom) ==
  LET selectors == buildCSSSelectors(descriptor)
  IN Distinct(Flatten([i \in 1..Len(selectors) |->
                         InOrder({e \in dom : Matches(e, selectors[i])})]))

(* lines 330-356 *)
findAllByXPath(descriptor, dom) ==
  LET xpaths == buildXPaths(descriptor, dom)
  IN Distinct(Flatten([i \in 1..Len(xpaths) |-> InOrder(xpaths[i])]))

(* lines 441-457 *)
findAllByText(descriptor, dom) ==
  IF descriptor.text = <<>> THEN <<>>
  ELSE
    LET text == toLowerCase(trim(descriptor.text))
    IN InOrder({e \in dom :
                  /\ descriptor.tagName # <<>> =>
                       toLowerCase(Element(e).tagName)
                         = toLowerCase(descriptor.tagName)
                  /\ includes(toLowerCase(trim(Element(e).textContent)),
                              text)})

(* lines 508-529; the descriptors have no role *)
findAllByAria(descriptor, dom) ==
  IF descriptor.ariaLabel = <<>> THEN <<>>
  ELSE InOrder({e \in dom :
                  Matches(e, [AnyElement EXCEPT
                                !.ariaPart = descriptor.ariaLabel])})

(* line 568: the descriptors have no dataAttributes *)
findAllByDataAttr(descriptor, dom) == <<>>

(* lines 616-620: findByVisual returns null *)
findAllByVisual(descriptor, dom) ==
  IF findByVisual(descriptor, dom) = Null THEN <<>>
  ELSE <<findByVisual(descriptor, dom)>>

(* lines 747-759 *)
findAllByFuzzy(descriptor, dom) ==
  LET candidates == InOrder(getCandidates(descriptor, dom))
      scored == [i \in 1..Len(candidates) |->
                   [element |-> candidates[i],
                    confidence |->
                      calculateFuzzyScore(candidates[i], descriptor)]]
      results == SelectSeq(scored,
                           LAMBDA r : ReachesThreshold(r.confidence))
      sorted == SortByConfidence(results)
  IN [i \in 1..Len(sorted) |-> sorted[i].element]

(* lines 166-187 *)
tryStrategyAll(strategy, descriptor, dom) ==
  CASE strategy = "exact"    -> findAllByExact(descriptor, dom)
    [] strategy = "css"      -> findAllByCSS(descriptor, dom)
    [] strategy = "xpath"    -> findAllByXPath(descriptor, dom)
    [] strategy = "text"     -> findAllByText(descriptor, dom)
    [] strategy = "aria"     -> findAllByAria(descriptor, dom)
    [] strategy = "dataAttr" -> findAllByDataAttr(descriptor, dom)
    [] strategy = "visual"   -> findAllByVisual(descriptor, dom)
    [] strategy = "fuzzy"    -> findAllByFuzzy(descriptor, dom)
    [] OTHER                 -> <<>>

(* lines 102-119: what the strategies return, in the order of the two      *)
(* loops; a strategy of `throwing` throws and the catch of line 117 goes   *)
(* on to the next one                                                      *)
Candidates(descriptor, dom, throwing) ==
  Flatten([i \in 1..Len(strategies) |->
             IF strategies[i] \in throwing THEN <<>>
             ELSE LET elements ==
                        tryStrategyAll(strategies[i], descriptor, dom)
                  IN [k \in 1..Len(elements) |->
                        [element |-> elements[k],
                         strategy |-> strategies[i]]]])

(* lines 107-115: the candidates that are pushed to results *)
RECURSIVE Collected(_, _, _, _)
Collected(candidates, results, descriptor, limit) ==
  IF candidates = <<>> THEN results
  ELSE
    LET element == Head(candidates).element
        confidence == calculateConfidence(element, descriptor)
        seen == \E i \in 1..Len(results) : results[i].element = element
    IN IF ~seen /\ Len(results) < limit /\ ReachesThreshold(confidence)
         THEN Collected(Tail(candidates),
                        Append(results,
                               [element |-> element,
                                confidence |-> confidence,
                                strategy |-> Head(candidates).strategy]),
                        descriptor, limit)
         ELSE Collected(Tail(candidates), results, descriptor, limit)

(* findAll(descriptor, {limit}), lines 97-122; findAll keeps nothing from  *)
(* one call that the next one reads, so a behaviour holds one call         *)
FindAll(descriptor, limit, throwing) ==
  /\ ~allFound.done
  /\ LET results == Collected(Candidates(descriptor, connected, throwing),
                              <<>>, descriptor, limit)
         sorted == SortByConfidence(results)
     IN allFound' = [done |-> TRUE, descriptor |-> descriptor,
                     limit |-> limit, throwing |-> throwing,
                     page |-> connected, results |-> results,
                     returned |-> [i \in 1..Len(sorted) |->
                                     sorted[i].element]]
  /\ UNCHANGED <<component, turn, plannerVars, engineVars, stepsVars,
                 conditionVars, selectorVars, waitCall, socket,
                 tableCall, resolveCall, outbox>>

(* the strategies that throw in one call: none, or any one of them *)
MaxThrowing == 1

Throwing == {set \in SUBSET Strategies : Cardinality(set) <= MaxThrowing}

FindAllNext ==
  \/ \E d \in FindAllDescriptors, limit \in 0..MaxLimit \cup {DefaultLimit},
        throwing \in Throwing :
       FindAll(d, limit, throwing)

FindAllOnlyInit ==
  /\ component = "findAll" /\ turn = 0
  /\ PlannerInit /\ EngineInit /\ StepsInit /\ ConditionIdle
  /\ \E page \in SUBSET Elements : SelectorIdleOn(page)
  /\ LaterIdle

(* calls of findAll on a page with some of e1, e2 and e3 *)
FindAllSpec == FindAllOnlyInit /\ [][FindAllNext]_vars

----------------------------------------------------------------------------
(*                      IntentParser: WAIT commands                        *)
(*                                                                         *)
(* src/core/agent/intent-parser.js.  Strings are sequences of code units,  *)
(* as for SelectorEngine.                                                  *)

MaxDigits == 3         \* digits of the number in a command

(* the verbs of the first WAIT pattern, line 68 *)
WaitVerbs == { <<119, 97, 105, 116>>, <<112, 97, 117, 115, 101>>, <<100, 101, 108, 97, 121>>, <<115, 108, 101, 101, 112>>, <<104, 111, 108, 100>> }

(* the units the first WAIT pattern allows after the number *)
MillisecondUnits == { <<109, 115>>, <<109, 105, 108, 108, 105, 115, 101, 99, 111, 110, 100>>, <<109, 105, 108, 108, 105, 115, 101, 99, 111, 110, 100, 115>> }
SecondUnits      == { <<115>>, <<115, 101, 99>>, <<115, 101, 99, 111, 110, 100>>, <<115, 101, 99, 111, 110, 100, 115>> }
MinuteUnits      == { <<109>>, <<109, 105, 110>>, <<109, 105, 110, 117, 116, 101>>, <<109, 105, 110, 117, 116, 101, 115>> }
WaitUnits == MillisecondUnits \cup SecondUnits \cup MinuteUnits

IsDigit(ch) == ch \in 48..57

(* the decimal digits of a number *)
RECURSIVE DecimalDigits(_)
DecimalDigits(n) ==
  IF n < 10 THEN <<48 + n>>
  ELSE Append(DecimalDigits(n \div 10), 48 + (n % 10))

(* the numbers of the commands: the smallest and the largest of each       *)
(* length, and the two around the `num < 100` of line 669                  *)
RECURSIVE Power10(_)
Power10(k) == IF k = 0 THEN 1 ELSE 10 * Power10(k - 1)

WaitNumbers ==
  UNION {{Power10(k - 1), 5 * Power10(k - 1), Power10(k) - 1} :
           k \in 1..MaxDigits}

(* parseInt of a string that starts with a digit *)
RECURSIVE parseInt(_)
parseInt(value) ==
  IF value = <<>> \/ ~IsDigit(value[Len(value)])
    THEN IF value = <<>> THEN 0
         ELSE parseInt(SubSeq(value, 1, Len(value) - 1))
    ELSE 10 * parseInt(SubSeq(value, 1, Len(value) - 1))
         + (value[Len(value)] - 48)

StartsWithAt(s, i, word) ==
  /\ i + Len(word) - 1 <= Len(s)
  /\ SubSeq(s, i, i + Len(word) - 1) = word

(* how many characters of the set follow each other from position i on *)
RECURSIVE RunFrom(_, _, _)
RunFrom(s, i, set) ==
  IF i <= Len(s) /\ s[i] \in set THEN 1 + RunFrom(s, i + 1, set) ELSE 0

(* where the digits of group 1 start when the first WAIT pattern,          *)
(* /(?:wait|pause|delay|sleep|hold)\s+(?:for\s+)?(\d+)\s*(?:...)?/i,       *)
(* matches with its verb at position i; 0 when it does not                 *)
DigitsAfterVerb(s, i) ==
  IF \E verb \in WaitVerbs : StartsWithAt(toLowerCase(s), i, verb)
    THEN LET verb == CHOOSE v \in WaitVerbs :
                       StartsWithAt(toLowerCase(s), i, v)
             j == i + Len(verb)
             k == j + RunFrom(s, j, {32})
             l == k + 3 + RunFrom(s, k + 3, {32})
         IN IF k = j THEN 0
            ELSE IF RunFrom(s, k, 48..57) > 0 THEN k
            ELSE IF /\ StartsWithAt(toLowerCase(s), k, <<102, 111, 114>>)
                    /\ l > k + 3 /\ RunFrom(s, l, 48..57) > 0
              THEN l
            ELSE 0
    ELSE 0

(* match[1] of String.prototype.match with the first WAIT pattern: the     *)
(* digits of the leftmost match, <<>> (undefined) without a match          *)
WaitMatch(input) ==
  LET starts == {i \in 1..Len(input) : DigitsAfterVerb(input, i) > 0}
  IN IF starts = {} THEN <<>>
     ELSE LET i == CHOOSE m \in starts : \A o \in starts : m <= o
              d == DigitsAfterVerb(input, i)
          IN SubSeq(input, d, d + RunFrom(input, d, 48..57) - 1)

(* line 662 *)
SecondsNamed(lower) ==
  includes(lower, <<115, 101, 99, 111, 110, 100>>) \/ includes(lower, <<115, 101, 99>>) \/ includes(lower, <<115>>)

(* parseWaitDuration(value, input), lines 654-670 *)
parseWaitDuration(value, input) ==
  LET num == parseInt(value)
      lower == toLowerCase(input)
  IN IF includes(lower, <<109, 105, 110, 117, 116, 101>>) \/ includes(lower, <<109, 105, 110>>)
       THEN num * 60000
     ELSE IF SecondsNamed(lower) THEN num * 1000
     ELSE IF includes(lower, <<109, 115>>) \/ includes(lower, <<109, 105, 108, 108, 105, 115, 101, 99, 111, 110, 100>>)
       THEN num
     ELSE IF num < 100 THEN num * 1000 ELSE num

(* extractParameters('WAIT', input, match), lines 414-423, for a match of  *)
(* the first pattern or of a keyword: params.duration                      *)
extractParameters(input, match1) ==
  IF match1 # <<>> THEN parseWaitDuration(match1, input)
  ELSE 1000

(* the command `<verb> [for ]<number>[ ][<unit>]`, already normalised *)
WaitCommand(verb, for, number, space, unit) ==
  verb \o <<32>> \o (IF for THEN <<102, 111, 114, 32>> ELSE <<>>) \o DecimalDigits(number)
  \o (IF space THEN <<32>> ELSE <<>>) \o unit

(* extractParameters for the command; the parser keeps nothing from one    *)
(* command that the next one reads, so a behaviour holds one command       *)
ParseWait(verb, for, number, space, unit) ==
  /\ ~waitCall.done
  /\ LET input == WaitCommand(verb, for, number, space, unit)
     IN waitCall' = [done |-> TRUE, input |-> input, number |-> number,
                     unit |-> unit,
                     duration |-> extractParameters(input, WaitMatch(input))]
  /\ UNCHANGED <<component, turn, plannerVars, engineVars, stepsVars,
                 conditionVars, selectorVars, allFound, socket,
                 tableCall, resolveCall, outbox>>

WaitNext ==
  \E verb \in WaitVerbs, for \in BOOLEAN, number \in WaitNumbers,
     space \in BOOLEAN, unit \in WaitUnits \cup {<<>>} :
    ParseWait(verb, for, number, space, unit)

WaitOnlyInit ==
  /\ component = "intent" /\ turn = 0
  /\ PlannerInit /\ EngineInit /\ StepsInit /\ ConditionIdle
  /\ SelectorIdle /\ LaterIdle

(* WAIT commands with a number *)
WaitSpec == WaitOnlyInit /\ [][WaitNext]_vars

----------------------------------------------------------------------------
(*              Background worker: WebSocket reconnection                  *)
(*                                                                         *)
(* src/background.js.  CONFIG.WEBSOCKET_URL is a valid constant URL, so    *)
(* `new WebSocket` does not throw.  Time is abstracted: any pending timer  *)
(* can be the next to fire.                                                *)

RECONNECT_DELAY == 5000
MAX_RECONNECT_ATTEMPTS == 10

MaxReconnects == 2     \* RECONNECT messages in one behaviour
MaxMessages == 3       \* calls of sendToWebSocket by the worker

RECURSIVE Power2(_)
Power2(k) == IF k = 0 THEN 1 ELSE 2 * Power2(k - 1)

(* connectToWebSocket(), lines 296-316 *)
connectToWebSocket(s) ==
  IF s.ws \in {"connecting", "open"} THEN s
  ELSE [s EXCEPT !.ws = "connecting"]

(* scheduleReconnect(), lines 439-453: the new timer's id replaces the one *)
(* in reconnectTimeout; the timer that one named is not cleared            *)
scheduleReconnect(s) ==
  IF s.reconnectAttempts >= MAX_RECONNECT_ATTEMPTS THEN s
  ELSE [s EXCEPT !.reconnectAttempts = @ + 1,
                 !.reconnectTimeout = "pending",
                 !.timers = Append(@, [delay |-> RECONNECT_DELAY
                                                   * Power2(s.reconnectAttempts),
                                       k |-> s.consecutive]),
                 !.consecutive = @ + 1]

(* handleWebSocketClose, lines 422-434 *)
handleWebSocketClose(s) ==
  scheduleReconnect([s EXCEPT !.isConnected = FALSE])

(* handleWebSocketOpen, lines 321-330: clearTimeout of a timer that has    *)
(* fired does nothing                                                      *)
handleWebSocketOpen(s) ==
  [s EXCEPT !.isConnected = TRUE,
            !.reconnectAttempts = 0,
            !.consecutive = 0,
            !.reconnectTimeout = "null",
            !.timers = IF s.reconnectTimeout = "pending"
                         THEN SubSeq(@, 1, Len(@) - 1) ELSE @]

SocketQuiet ==
  UNCHANGED <<component, turn, plannerVars, engineVars, stepsVars,
              conditionVars, selectorVars, allFound, waitCall,
              tableCall, resolveCall>>

(* lines 282-291: the first connectToWebSocket(), after initDatabase *)
Startup ==
  /\ socket.ws = "null"
  /\ socket' = connectToWebSocket(socket)
  /\ SocketQuiet /\ UNCHANGED outbox

(* sendToWebSocket(message), lines 481-496: JSON.stringify throws for a   *)
(* message that cannot be serialised, and the catch queues the message;   *)
(* ws.send does not throw on an open socket                               *)
sendToWebSocket(ws, o, message) ==
  IF ws # "open" THEN [o EXCEPT !.pendingCommands = Append(@, message)]
  ELSE IF message.serialisable THEN [o EXCEPT !.sent = Append(@, message)]
  ELSE [o EXCEPT !.pendingCommands = Append(@, message)]

RECURSIVE SendEach(_, _, _)
SendEach(commands, ws, o) ==
  IF commands = <<>> THEN o
  ELSE SendEach(Tail(commands), ws, sendToWebSocket(ws, o, Head(commands)))

(* processPendingCommands(), lines 501-512 *)
processPendingCommands(ws, o) ==
  SendEach(o.pendingCommands, ws, [o EXCEPT !.pendingCommands = <<>>])

(* the open event of the socket: handleWebSocketOpen, lines 321-356.  The  *)
(* identification message of lines 333-349 is serialisable and the socket  *)
(* is open, so it goes to ws.send; it is not recorded in outbox.sent       *)
SocketOpens ==
  /\ socket.ws = "connecting"
  /\ socket' = handleWebSocketOpen([socket EXCEPT !.ws = "open"])
  /\ outbox' = processPendingCommands("open", outbox)
  /\ SocketQuiet

(* the connection fails or is lost: the close event of the socket (the     *)
(* error event before it, lines 411-417, sets isConnected to false too)    *)
SocketCloses ==
  /\ socket.ws \in {"connecting", "open"}
  /\ socket' = handleWebSocketClose([socket EXCEPT !.ws = "closed"])
  /\ SocketQuiet /\ UNCHANGED outbox

(* the close event of a socket the RECONNECT handler closed; its onclose   *)
(* is handleWebSocketClose as well                                         *)
OldSocketCloses ==
  /\ socket.closing > 0
  /\ socket' = handleWebSocketClose([socket EXCEPT !.closing = @ - 1])
  /\ SocketQuiet /\ UNCHANGED outbox

(* a reconnect timer fires: lines 450-452 *)
TimerFires(i) ==
  /\ i \in 1..Len(socket.timers)
  /\ LET fired == [socket EXCEPT
                     !.timers = SubSeq(@, 1, i - 1)
                                \o SubSeq(@, i + 1, Len(@)),
                     !.reconnectTimeout =
                       IF @ = "pending" /\ i = Len(socket.timers)
                         THEN "fired" ELSE @]
     IN socket' = connectToWebSocket(fired)
  /\ SocketQuiet /\ UNCHANGED outbox

(* the message RECONNECT, lines 881-890: ws.close() starts the closing of  *)
(* a socket that is connecting or open and does nothing to a closed one    *)
ManualReconnect ==
  /\ socket.manual < MaxReconnects
  /\ LET closed == IF socket.ws \in {"connecting", "open"}
                     THEN [socket EXCEPT !.ws = "closing",
                                         !.closing = @ + 1]
                     ELSE socket
     IN socket' = connectToWebSocket(
                    [closed EXCEPT !.reconnectAttempts = 0,
                                   !.consecutive = 0,
                                   !.manual = @ + 1])
  /\ SocketQuiet /\ UNCHANGED outbox

(* the worker calls sendToWebSocket(message): a response, a heartbeat, an *)
(* activity                                                                *)
SendMessage(serialisable) ==
  /\ Len(outbox.made) < MaxMessages
  /\ LET message == [id |-> Len(outbox.made) + 1, serialisable |-> serialisable]
         o == sendToWebSocket(socket.ws, outbox, message)
     IN outbox' = [o EXCEPT !.made = Append(@, message),
                            !.queued = IF socket.ws # "open"
                                         THEN Append(@, message) ELSE @]
  /\ UNCHANGED socket
  /\ SocketQuiet

SocketNext ==
  \/ Startup
  \/ SocketOpens
  \/ SocketCloses
  \/ OldSocketCloses
  \/ \E i \in 1..Len(socket.timers) : TimerFires(i)
  \/ ManualReconnect

SocketOnlyInit ==
  /\ component = "socket" /\ turn = 0
  /\ PlannerInit /\ EngineInit /\ StepsInit /\ ConditionIdle
  /\ SelectorIdle /\ LaterIdle

(* the connection of the background worker, with manual reconnects *)
SocketSpec == SocketOnlyInit /\ [][SocketNext]_vars

MessageNext ==
  \/ SocketNext
  \/ \E serialisable \in BOOLEAN : SendMessage(serialisable)

(* the connection and the messages the worker sends over it *)
MessageSpec == SocketOnlyInit /\ [][MessageNext]_vars

----------------------------------------------------------------------------
(*                       AutoScraper: tables                               *)
(*                                                                         *)
(* src/core/scraper/auto-scraper.js.  A table is a visible <table> whose   *)
(* first <tr> is the header row, of <th> or of <td> cells, followed by the *)
(* data rows, each of as many <td> cells as the header has.  A cell is its *)
(* text content (code units); no cell holds a link or an image and no      *)
(* element has an aria-label.                                              *)

MaxColumns == 2        \* cells of the header row, at least 1
MaxRows == 2           \* data rows of a table

(* text of a header cell: empty, "A", "B", " A" *)
HeaderTexts == { <<>>, <<65>>, <<66>>, <<32, 65>> }

(* text of a data cell: "x", "y " *)
CellTexts == { <<120>>, <<121, 32>> }

Tables ==
  UNION {[headerTag : {"th", "td"},
          header : [1..h -> HeaderTexts],
          rows : UNION {[1..r -> [1..h -> CellTexts]] : r \in 0..MaxRows}] :
           h \in 1..MaxColumns}

(* the non-empty trimmed texts of the cells, lines 113-116 and 122-125 *)
CellHeaders(cells) ==
  LET texts == [i \in 1..Len(cells) |-> trim(cells[i])]
  IN SelectSeq(texts, LAMBDA text : text # <<>>)

(* extractTableHeaders(table), lines 108-139: the <th> of the table, else  *)
(* the <td> of its first row, else the aria-labels (there are none)        *)
extractTableHeaders(table) ==
  LET fromTh == IF table.headerTag = "th" THEN CellHeaders(table.header)
                ELSE <<>>
      fromFirstRow == IF table.headerTag = "td"
                        THEN CellHeaders(table.header) ELSE <<>>
  IN IF fromTh # <<>> THEN fromTh
     ELSE IF fromFirstRow # <<>> THEN fromFirstRow
     ELSE <<>>

(* countTableRows(table), lines 144-146 *)
countTableRows(table) == 1 + Len(table.rows)

(* extractCellValue(cell), lines 482-504, for a cell of text *)
extractCellValue(cell) == trim(cell)

(* `column_${index}`, line 468 *)
ColumnKey(index) == <<99, 111, 108, 117, 109, 110, 95>> \o DecimalDigits(index)

(* the <td> cells of the i-th <tr> of the table (i from 0), line 463 *)
TdCells(table, i) ==
  IF i = 0 THEN (IF table.headerTag = "td" THEN table.header ELSE <<>>)
  ELSE table.rows[i]

(* lines 464-470: the object made from the cells of a row; a key that is   *)
(* set again keeps the later value                                         *)
RowData(cells, headers) ==
  LET key(i) == IF i <= Len(headers) THEN headers[i] ELSE ColumnKey(i - 1)
      last(k) == CHOOSE i \in 1..Len(cells) :
                   /\ key(i) = k
                   /\ \A j \in 1..Len(cells) : key(j) = k => j <= i
  IN [k \in {key(i) : i \in 1..Len(cells)} |->
        extractCellValue(cells[last(k)])]

(* line 460 *)
StartIndex(headers) == IF Len(headers) > 0 THEN 1 ELSE 0

(* extractTable(pattern), lines 453-477 *)
extractTable(table, headers) ==
  LET startIndex == StartIndex(headers)
      read == [n \in 1..(countTableRows(table) - startIndex) |->
                 TdCells(table, startIndex + n - 1)]
      filled == SelectSeq(read, LAMBDA cells : cells # <<>>)
  IN [n \in 1..Len(filled) |-> RowData(filled[n], headers)]

(* findTables for the table (lines 85-100), then extractPattern for the    *)
(* pattern it made (lines 428-431); nothing is kept from one page to the   *)
(* next, so a behaviour holds one table                                    *)
ExtractTable(table) ==
  /\ ~tableCall.done
  /\ LET headers == extractTableHeaders(table)
         found == Len(headers) > 0 \/ countTableRows(table) > 1
     IN tableCall' = [done |-> TRUE, table |-> table, found |-> found,
                      headers |-> headers,
                      data |-> IF found THEN extractTable(table, headers)
                               ELSE <<>>]
  /\ UNCHANGED <<component, turn, plannerVars, engineVars, stepsVars,
                 conditionVars, selectorVars, allFound, waitCall, socket,
                 resolveCall, outbox>>

TableNext == \E table \in Tables : ExtractTable(table)

TableOnlyInit ==
  /\ component = "scraper" /\ turn = 0
  /\ PlannerInit /\ EngineInit /\ StepsInit /\ ConditionIdle
  /\ SelectorIdle /\ LaterIdle

(* one visible table with a header row *)
TableSpec == TableOnlyInit /\ [][TableNext]_vars

----------------------------------------------------------------------------
(*                 WorkflowEngine.resolveValue on any value                *)

MaxElements == 2     \* elements of an array given to resolveValue

(* the exception JSON.stringify throws for a lastResult that refers to     *)
(* itself (or holds a BigInt)                                              *)
Thrown == Leaf("throw", <<"TypeError">>)

HasLastResultRef(s) == \E k \in 1..Len(s) : s[k] = Ref("lastResult")

(* resolveValue, lines 474-500 *)
RECURSIVE resolveAny(_, _, _)
resolveAny(value, variables, lastResult) ==
  IF value.t = "string"
    THEN IF lastResult.circular /\ HasLastResultRef(value.s)
           THEN Thrown
           ELSE Leaf("string", resolveValue(value.s, variables, lastResult.json))
  ELSE IF value.t \in {"array", "object"}
    THEN LET items == [k \in 1..Len(value.items) |->
                         resolveAny(value.items[k], variables, lastResult)]
         IN IF \E k \in 1..Len(items) : items[k].t = "throw"
              THEN Thrown
              ELSE [value EXCEPT !.items = items]
  ELSE value

(* the strings, with and without {{name}} references *)
ResolveStrings ==
  { <<>>, <<"a">>, <<Ref("v")>>, <<"a", " ", Ref("v"), Ref("x")>>,
    <<Ref("v"), Ref("v")>>, <<Ref("lastResult")>>,
    <<"a", Ref("lastResult"), Ref("v")>> }

ResolveLeaves ==
  {Leaf("null", <<>>), Leaf("undefined", <<>>), Leaf("number", <<"5">>)}
    \cup {Leaf("string", s) : s \in ResolveStrings}

ResolveFlat ==
  ResolveLeaves
    \cup {ArrayOfValues(items) : items \in SeqsUpTo(ResolveLeaves, MaxElements)}
    \cup {ObjectOf(<<"a">>, <<v>>) : v \in ResolveLeaves}

ResolveValues ==
  ResolveFlat
    \cup {ArrayOfValues(<<v>>) : v \in ResolveFlat}
    \cup {ObjectOf(<<"a", "b">>, <<v, Leaf("string", <<Ref("x")>>)>>) :
            v \in ResolveFlat}

(* this.executionContext.variables and .lastResult: v and x undefined, a   *)
(* string or a number; lastResult null, a string, or an object that refers *)
(* to itself                                                               *)
ResolveVariables ==
  { [NoVariables EXCEPT !["v"] = v, !["x"] = x] :
      v \in {Undefined, Str(<<"a">>), Num(5)}, x \in {Undefined, Str(<<"done">>)} }

ResolveLastResults ==
  { [circular |-> FALSE, json |-> <<"null">>],
    [circular |-> FALSE, json |-> <<"\"r\"">>],
    [circular |-> TRUE, json |-> <<>>] }

(* resolveValue(value): the value and the variables are only read *)
ResolveValue ==
  /\ component = "resolve"
  /\ ~resolveCall.done
  /\ resolveCall' =
       [resolveCall EXCEPT !.done = TRUE,
          !.result = resolveAny(resolveCall.value, resolveCall.variables,
                                resolveCall.lastResult)]
  /\ UNCHANGED <<component, turn, plannerVars, engineVars, stepsVars,
                 conditionVars, selectorVars, allFound, waitCall, socket,
                 tableCall, outbox>>

ResolveOnlyInit ==
  /\ component = "resolve" /\ turn = 0
  /\ PlannerInit /\ EngineInit /\ StepsInit /\ ConditionIdle
  /\ SelectorIdle /\ FindAllIdle /\ WaitIdle /\ SocketIdle /\ TableIdle
  /\ OutboxIdle
  /\ \E value \in ResolveValues, variables \in ResolveVariables,
        lastResult \in ResolveLastResults :
       resolveCall = [NoResolveCall EXCEPT !.value = value, !.input = value,
                        !.variables = variables, !.variablesBefore = variables,
                        !.lastResult = lastResult]

(* one call of resolveValue *)
ResolveSpec == ResolveOnlyInit /\ [][ResolveValue]_vars

----------------------------------------------------------------------------
(* Bounds of this view *)
MaxRuns == 2         \* overlapping calls of execute
MaxTop == 2          \* top-level steps of a workflow
MaxBody == 2         \* body steps of a loop or forEach
MaxItems == 2        \* items of a forEach collection
MaxCount == 2        \* count of a loop
MaxBranches == 2     \* sub-steps of a parallel step

LeafSteps == {ClickStep, ExtractStep, SetVariable("v", <<"a">>)}
ExecutorSteps == {ClickStep, ExtractStep}
Items(n) == [k \in 1..n |-> "item" \o ToString(k)]

(* workflows of setVariable and executor steps *)
LeafWorkflows == SeqsUpTo(LeafSteps, MaxTop)

(* a forEach step, alone or followed by a click *)
ForEachSteps ==
  { ForEachStep(c, body, optional) :
      c \in {NotAnArray} \cup {ArrayOf(Items(n)) : n \in 0..MaxItems},
      body \in SeqsUpTo(ExecutorSteps, MaxBody), optional \in BOOLEAN }

ForEachWorkflows ==
  { <<s>> \o rest : s \in ForEachSteps, rest \in {<<>>, <<ClickStep>>} }

(* a loop step whose body steps are executor steps or a forEach *)
BreakConditions == {<<>>, <<Ref("_iteration"), " ", "=", "=", " ", "1">>}

LoopBodySteps ==
  ExecutorSteps \cup {ForEachStep(ArrayOf(Items(MaxItems)), <<ClickStep>>, FALSE)}

LoopWorkflows ==
  { <<LoopStep(c, body, brk)>> :
      c \in 0..MaxCount, body \in SeqsUpTo(LoopBodySteps, MaxBody),
      brk \in BreakConditions }

(* a parallel step, alone or followed by a click *)
ParallelWorkflows ==
  { <<ParallelStep(subs)>> \o rest :
      subs \in SeqsUpTo(LeafSteps, MaxBranches), rest \in {<<>>, <<ClickStep>>} }

(* execute and executeStep on executor and setVariable steps *)
LeafNext(limit, workflowSet) ==
  \/ \E steps \in workflowSet, ex \in WfExecutorMaps : StartExecution(steps, ex, limit)
  \/ \E x \in ExecutionIds : ExecuteHead(x)
  \/ \E x \in ExecutionIds : NoExecutorStep(x)
  \/ \E x \in ExecutionIds : ExecutorThrows(x)
  \/ \E x \in ExecutionIds : ExecutorCalled(x)
  \/ \E x \in ExecutionIds : ExecutorResolves(x)
  \/ \E x \in ExecutionIds : ExecutorRejects(x)
  \/ \E x \in ExecutionIds : StepCompleted(x)
  \/ \E x \in ExecutionIds : StepFailed(x)
  \/ \E x \in ExecutionIds : ResumeExecute(x)
  \/ \E x \in ExecutionIds : FinishExecution(x)

(* handleLoop and handleForEach *)
IterationNext ==
  \/ \E x \in ExecutionIds : IterationHead(x)
  \/ \E x \in ExecutionIds : BodyHead(x)
  \/ \E x \in ExecutionIds : IterationEnd(x)
  \/ \E x \in ExecutionIds : ResumeBody(x)
  \/ \E x \in ExecutionIds : HandlerReturns(x)

StepsOnlyInit ==
  /\ component = "steps" /\ turn = 0
  /\ PlannerInit /\ EngineInit /\ StepsInit /\ ConditionIdle /\ SelectorIdle /\ LaterIdle

(* overlapping executions of workflows of setVariable and executor steps *)
VariablesNext ==
  \/ LeafNext(MaxRuns, LeafWorkflows)
  \/ \E x \in ExecutionIds : CallSetVariable(x)

VariablesSpec == StepsOnlyInit /\ [][VariablesNext]_vars

(* one execution of a workflow with a forEach step *)
ForEachNext ==
  \/ LeafNext(1, ForEachWorkflows)
  \/ IterationNext
  \/ \E x \in ExecutionIds : EnterForEach(x)
  \/ \E x \in ExecutionIds : ForEachNotArray(x)

ForEachSpec == StepsOnlyInit /\ [][ForEachNext]_vars

(* one execution of a workflow with a loop step *)
LoopNext ==
  \/ LeafNext(1, LoopWorkflows)
  \/ IterationNext
  \/ \E x \in ExecutionIds : EnterLoop(x)
  \/ \E x \in ExecutionIds : EnterForEach(x)

LoopSpec == StepsOnlyInit /\ [][LoopNext]_vars

(* one execution of a workflow with a parallel step *)
ParallelNext ==
  \/ LeafNext(1, ParallelWorkflows)
  \/ \E x \in ExecutionIds : EnterParallel(x)
  \/ \E x \in ExecutionIds, throws \in BOOLEAN : SpawnBranch(x, throws)
  \/ \E x \in ExecutionIds : AwaitBranches(x)
  \/ \E x \in ExecutionIds, k \in 1..MaxBranches : BranchResolves(x, k)
  \/ \E x \in ExecutionIds, k \in 1..MaxBranches : BranchRejects(x, k)
  \/ \E x \in ExecutionIds : JoinParallel(x)
  \/ \E x \in ExecutionIds : HandlerReturns(x)

ParallelSpec == StepsOnlyInit /\ [][ParallelNext]_vars

(* evaluateCondition on one condition *)
ConditionOnlyInit ==
  /\ component = "condition" /\ turn = 0
  /\ PlannerInit /\ EngineInit /\ StepsInit /\ ConditionInit
  /\ SelectorIdle /\ LaterIdle

ConditionSpec == ConditionOnlyInit /\ [][EvaluateCondition]_vars

----------------------------------------------------------------------------
Init ==
  /\ component \in {"planner", "workflow"}
  /\ turn = 0
  /\ PlannerInit
  /\ EngineInit
  /\ StepsInit
  /\ ConditionIdle
  /\ SelectorIdle /\ LaterIdle

Next == PlannerNext \/ EngineNext

(* both components: a behaviour drives the planner or the engine *)
Spec == Init /\ [][Next]_vars

(* the planner alone *)
PlannerOnlyInit ==
  /\ component = "planner" /\ turn = 0
  /\ PlannerInit /\ EngineInit /\ StepsInit /\ ConditionIdle /\ SelectorIdle /\ LaterIdle
PlannerSpec == PlannerOnlyInit /\ [][PlannerNext]_vars

(* TaskPlanner with a progress callback registered at some point *)
ProgressNext ==
  \/ PlannerNext
  \/ \E callback \in Callbacks : OnProgress(callback)

ProgressSpec == PlannerOnlyInit /\ [][ProgressNext]_vars

(* the engine alone *)
EngineOnlyInit ==
  /\ component = "workflow" /\ turn = 0
  /\ PlannerInit /\ EngineInit /\ StepsInit /\ ConditionIdle /\ SelectorIdle /\ LaterIdle
EngineSpec == EngineOnlyInit /\ [][EngineNext]_vars


----------------------------------------------------------------------------
(*                      Properties of the TaskPlanner                      *)

FinalStepStatus == {"completed", "failed", "skipped"}

(* the plan has been passed to execute exactly once *)
RunOnce(plan) == plan.runs = 1

StepStatusMoves ==
  { <<"pending", "running">>, <<"running", "completed">>,
    <<"running", "failed">>, <<"running", "skipped">> }

(* some call of execute is in its inner catch for step k of plan p *)
InCatch(p, k) ==
  \E e \in ExecIds : execs[e].pc = "catch" /\ execs[e].plan = p /\ execs[e].i = k

PlanStatusMoves ==
  { <<"created", "running">>, <<"running", "completed">>,
    <<"running", "failed">>, <<"running", "cancelled">> }

(* C2: a plan's status moves only created -> running -> completed, failed  *)
(* or cancelled, and never leaves completed, failed or cancelled.          *)
C2_PlanStatusMachine ==
  [][\A p \in PlanIds :
       plans'[p].status # plans[p].status =>
         <<plans[p].status, plans'[p].status>> \in PlanStatusMoves]_vars

(* C3: when a required step fails, the plan becomes failed and the call    *)
(* leaves the loop and starts no further step; when the one call of        *)
(* execute on a plan has returned, every step after a failed one is still  *)
(* pending.                                                                *)
C3_RequiredFailureHalts ==
  [][/\ \A e \in ExecIds :
          /\ execs[e].pc = "catch" /\ execs'[e].pc # "catch" /\ ~CurStep(e).optional
               => /\ plans'[execs[e].plan].status = "failed"
                  /\ plans'[execs[e].plan].steps[execs[e].i].status = "failed"
                  /\ execs'[e].pc = "finish"
          /\ execs[e].pc \in {"finish", "done"}
               => execs'[e].started = execs[e].started /\ execs'[e].pc # "loop"
     /\ \A e \in ExecIds :
          LET plan == plans'[execs[e].plan]
          IN execs'[e].pc = "done" /\ RunOnce(plan) =>
               \A k \in 1..Len(plan.steps) :
                 plan.steps[k].status = "failed" =>
                   /\ plan.status = "failed"
                   /\ \A j \in (k + 1)..Len(plan.steps) :
                        plan.steps[j].status = "pending"]_vars

(* the call returned after the first of two required steps timed out *)
C3_Witness ==
  \E e \in ExecIds :
    LET plan == plans[execs[e].plan]
    IN /\ execs[e].pc = "done" /\ RunOnce(plan) /\ Len(plan.steps) = 2
       /\ plan.steps[1].status = "failed" /\ plan.steps[1].error = TimeoutError
       /\ plan.steps[2].status = "pending"
       /\ plan.status = "failed"

(* C4 as stated: when an optional step fails it ends skipped, the plan     *)
(* stays running, and the call goes on with the following step.            *)
C4_OptionalFailureKeepsRunning ==
  [][\A e \in ExecIds :
       /\ execs[e].pc = "catch" /\ execs'[e].pc # "catch" /\ CurStep(e).optional
       /\ RunOnce(plans[execs[e].plan])
       => /\ plans'[execs[e].plan].steps[execs[e].i].status = "skipped"
          /\ plans'[execs[e].plan].status = "running"]_vars

(* C4 amended: when an optional step fails it ends skipped, the failure    *)
(* leaves the plan's status as it was, and the call goes back to the loop  *)
(* at the following step, which it starts unless the plan was cancelled    *)
(* (or the step is an optional one skipped before); when the one call of   *)
(* execute on a plan returns with no step failed and the plan not          *)
(* cancelled, the plan is completed.                                       *)
C4_OptionalFailureContinues ==
  [][/\ \A e \in ExecIds :
          /\ execs[e].pc = "catch" /\ execs'[e].pc # "catch" /\ CurStep(e).optional
               => /\ plans'[execs[e].plan].steps[execs[e].i].status = "skipped"
                  /\ plans'[execs[e].plan].status = plans[execs[e].plan].status
                  /\ execs'[e].pc = "loop" /\ execs'[e].i = execs[e].i + 1
          /\ LET plan == plans[execs[e].plan]
                 i == execs[e].i
             IN /\ execs[e].pc = "loop" /\ execs'[e] # execs[e]
                /\ i <= Len(plan.steps) /\ plan.status # "cancelled"
                /\ plan.steps[i].status # "skipped"
                => /\ execs'[e].pc = "call" /\ execs'[e].i = i
                   /\ plans'[execs[e].plan].steps[i].status = "running"
     /\ \A e \in ExecIds :
          LET plan == plans'[execs[e].plan]
          IN /\ execs'[e].pc = "done" /\ RunOnce(plan)
             /\ plan.status # "cancelled"
             /\ \A k \in 1..Len(plan.steps) : plan.steps[k].status # "failed"
             => plan.status = "completed"]_vars

(* a plan run once: its optional first step failed and was skipped, its    *)
(* second step then ran and completed, and the plan is completed           *)
C4_Witness ==
  \E e \in ExecIds :
    LET plan == plans[execs[e].plan]
    IN /\ execs[e].pc = "done" /\ RunOnce(plan) /\ Len(plan.steps) = 2
       /\ plan.steps[1].status = "skipped" /\ plan.steps[1].error = ExecutorError
       /\ plan.steps[2].status = "completed"
       /\ plan.status = "completed"

RunningSteps(plan) ==
  {k \in 1..Len(plan.steps) : plan.steps[k].status = "running"}

(* C5: at most one step of a plan is running, and a step enters running    *)
(* only when every earlier step is completed, failed or skipped.           *)
C5_StrictlySequential ==
  [][\A p \in PlanIds :
       /\ Cardinality(RunningSteps(plans'[p])) <= 1
       /\ \A k \in 1..Len(plans[p].steps) :
            plans[p].steps[k].status # "running"
            /\ plans'[p].steps[k].status = "running"
            => \A j \in 1..(k - 1) : plans[p].steps[j].status \in FinalStepStatus]_vars

(* C6: a call of execute on a plan that is already completed calls no      *)
(* executor and starts no step.                                            *)
C6_ReExecuteIsNoOp ==
  \A e \in ExecIds :
    execs[e].startStatus = "completed" =>
      execs[e].invoked = 0 /\ execs[e].started = 0


----------------------------------------------------------------------------
(*               Properties of the planner and of the engine               *)

(* C7: cancel() leaves the call it hits suspended where it was, with the   *)
(* step in flight untouched, and a call that cancel() has hit starts no    *)
(* further step (planner: the plan's one call of execute; engine: the      *)
(* execution that was active).                                             *)
C7_CancelIsCooperative ==
  [][/\ \A e \in ExecIds :
          /\ ~execs[e].cancelSeen /\ execs'[e].cancelSeen
               => /\ execs'[e].pc = "await" /\ execs[e].pc = "await"
                  /\ plans'[execs[e].plan].steps = plans[execs[e].plan].steps
                  /\ RunOnce(plans[execs[e].plan]) => CurStep(e).status = "running"
          /\ execs[e].cancelSeen /\ RunOnce(plans'[execs[e].plan])
               => execs'[e].started = execs[e].started
     /\ \A x \in WfExecIds :
          /\ ~wexecs[x].cancelSeen /\ wexecs'[x].cancelSeen
               => /\ wexecs'[x].pc = wexecs[x].pc
                  /\ wexecs'[x].cur = wexecs[x].cur
                  /\ wexecs'[x].stepResults = wexecs[x].stepResults
          /\ wexecs[x].cancelSeen
               => wexecs'[x].started = wexecs[x].started]_vars

(* an execution of a two-step workflow that was cancelled while its first  *)
(* step was in flight: that step completed, the second was never started   *)
C7_Witness ==
  \E x \in WfExecIds :
    /\ wexecs[x].pc = "done" /\ wexecs[x].cancelSeen
    /\ wexecs[x].status = "cancelled"
    /\ Len(WfOf(x).steps) = 2 /\ wexecs[x].started = 1
    /\ Len(wexecs[x].stepResults) = 1
    /\ wexecs[x].stepResults[1].status = "completed"
    /\ wexecs[x].stepResults[1].result = "ok"

(* the deadline the specification gives a step: step.timeout, else 30 s *)
ClaimedDeadline(step) == IF step.timeout # 0 THEN step.timeout ELSE 30000

C9_MissingExecutorFails ==
  [][/\ \A e \in ExecIds :
          /\ /\ execs[e].pc = "call" /\ execs'[e].pc # "call"
             /\ CurStep(e).action \notin execs[e].executors
             => /\ execs'[e].pc = "catch"
                /\ execs'[e].err = "No executor for action: " \o CurStep(e).action
                /\ execs'[e].invoked = execs[e].invoked
          /\ execs[e].pc = "catch" /\ execs'[e].pc # "catch"
             => LET step == plans'[execs[e].plan].steps[execs[e].i]
                IN step.error = execs[e].err /\ step.status \in {"failed", "skipped"}
     /\ \A x \in WfExecIds :
          /\ /\ wexecs[x].pc = "call" /\ wexecs'[x].pc # "call"
             /\ WfCurStep(x).action \notin NativeKinds
             /\ WfCurStep(x).action \notin wexecs[x].executors
             => /\ wexecs'[x].pc = "stepCatch"
                /\ wexecs'[x].err = "No executor for action: " \o WfCurStep(x).action
                /\ wexecs'[x].invoked = wexecs[x].invoked
          /\ wexecs[x].pc = "stepCatch" /\ wexecs'[x].pc # "stepCatch"
             => /\ wexecs'[x].cur.status = "failed"
                /\ wexecs'[x].cur.error = wexecs[x].err]_vars

(* a plan failed by a step without executor, no executor having been called *)
C9_Witness ==
  \E e \in ExecIds :
    LET plan == plans[execs[e].plan]
    IN /\ execs[e].pc = "done" /\ execs[e].invoked = 0 /\ RunOnce(plan)
       /\ Len(plan.steps) >= 1
       /\ plan.steps[1].status = "failed"
       /\ plan.steps[1].error = "No executor for action: findElement"

----------------------------------------------------------------------------
(*                    Properties of the WorkflowEngine                     *)

AttemptsOf(exec, i) ==
  Cardinality({k \in 1..Len(exec.stepResults) : exec.stepResults[k].stepIndex = i})

(* C11: in a workflow with retryOnError set and maxRetries N, an execution  *)
(* is marked failed by a required step only when that step's retries are   *)
(* exhausted, that is after more than N attempts of it; a failure with      *)
(* fewer attempts is followed by a new attempt of the same step.            *)
C11_FailedStepIsRetried ==
  [][\A x \in WfExecIds :
       (/\ wexecs[x].pc = "stepEnd"
        /\ WfOf(x).settings.retryOnError
        /\ wexecs[x].status = "running"
        /\ wexecs'[x].status = "failed")
       => AttemptsOf(wexecs'[x], wexecs[x].i) > WfOf(x).settings.maxRetries]_vars

(* executions of workflow w whose endTime is set (execute is past line 241) *)
FinishedOf(w) ==
  {x \in WfExecIds : wexecs[x].workflow = w
                      /\ wexecs[x].pc \in {"saveStats", "saveExec", "done"}}

StatisticsConsistent ==
  \A w \in WfIds :
    LET s == workflows[w].statistics
    IN /\ s.runCount = s.successCount + s.failureCount
       /\ s.runCount = Cardinality(FinishedOf(w))

(* the statistics of w after one more run counted as success or as failure *)
CountedAs(stats, success) ==
  [runCount |-> stats.runCount + 1,
   successCount |-> stats.successCount + (IF success THEN 1 ELSE 0),
   failureCount |-> stats.failureCount + (IF success THEN 0 ELSE 1)]

(* C13: for every workflow, runCount = successCount + failureCount = the    *)
(* number of its executions that have finished; an execution that finishes *)
(* adds one to runCount and one to successCount if its status is completed *)
(* and to failureCount otherwise, and nothing else changes the statistics.  *)
C13_StatisticsCountFinished ==
  [][/\ StatisticsConsistent'
     /\ \A x \in WfExecIds :
          (wexecs[x].pc = "finish" /\ wexecs'[x].pc # "finish") =>
            workflows'[wexecs[x].workflow].statistics =
              CountedAs(WfOf(x).statistics, wexecs'[x].status = "completed")
     /\ \A w \in WfIds :
          workflows'[w].statistics # workflows[w].statistics =>
            \E x \in WfExecIds : /\ wexecs[x].workflow = w
                                  /\ wexecs[x].pc = "finish"
                                  /\ wexecs'[x].pc # "finish"]_vars

(* two overlapping executions of one workflow have returned, one completed  *)
(* and one cancelled: counted as a success and a failure                    *)
C13_Witness ==
  \E w \in WfIds, x, y \in WfExecIds :
    /\ x # y /\ wexecs[x].workflow = w /\ wexecs[y].workflow = w
    /\ wexecs[x].pc = "done" /\ wexecs[y].pc = "done"
    /\ wexecs[x].status = "completed" /\ wexecs[y].status = "cancelled"
    /\ wexecs[y].started < Len(workflows[w].steps)
    /\ workflows[w].statistics =
         [runCount |-> 2, successCount |-> 1, failureCount |-> 1]


----------------------------------------------------------------------------
(*          Properties of nested steps and execution variables             *)

(* C12: each execution keeps its own variables and lastResult: a variable  *)
(* of an execution is written only by steps of that execution, the         *)
(* interpolation of an executor step's params reads the variables of the   *)
(* execution the step belongs to, and the lastResult of the context was    *)
(* stored by the execution the context belongs to.                         *)
C12_VariablesArePerExecution ==
  /\ \A x \in ExecutionIds :
       /\ \A name \in VarNames : executions[x].writers[name] \in {0, x}
       /\ executions[x].lastCall.context \in {0, x}
  /\ executionContext.lastResultBy \in {0, executionContext.execution}

(* the top-level step at place k (from 1) of execution x and its result *)
TopStep(x, k) == executions[x].steps[k]
HasResult(x, k) == Len(executions[x].stepResults) >= k

(* C14: a forEach step whose collection is no array fails with 'forEach    *)
(* requires an array collection' without running a body step, and the      *)
(* execution is then failed and runs no further step, also when the        *)
(* forEach step is optional.                                               *)
C14_NotArrayIsFatal ==
  \A x \in ExecutionIds :
    (/\ executions[x].steps # <<>>
     /\ TopStep(x, 1).action = "forEach"
     /\ ~TopStep(x, 1).collection.isArray
     /\ HasResult(x, 1)) =>
       /\ executions[x].stepResults[1].status = "failed"
       /\ executions[x].stepResults[1].error = NotArrayError
       /\ executions[x].stepResults[1].result.results = <<>>
       /\ executions[x].status = "failed"
       /\ executions[x].error = NotArrayError
       /\ Len(executions[x].stepResults) = 1
       /\ executions[x].invoked = 0

(* the body step an entry of a handler's results belongs to, and the       *)
(* entries that are failures of non-optional body steps                    *)
BodyStepOf(step, e) == step.body[((e - 1) % Len(step.body)) + 1]
FatalEntries(step, entries) ==
  {e \in 1..Len(entries) :
     entries[e].status = "failed" /\ ~BodyStepOf(step, e).optional}

(* C15: the result of a forEach over an array of n items has total = n;    *)
(* the body steps run item by item; if a non-optional body step fails,     *)
(* first on the item at index k, nothing runs after it and the result has  *)
(* processed = k and the error of that failure; otherwise every body step  *)
(* ran for every item, processed = n and there is no error.                *)
C15_ForEachStopsAtFailure ==
  \A x \in ExecutionIds :
    (/\ executions[x].steps # <<>>
     /\ TopStep(x, 1).action = "forEach"
     /\ TopStep(x, 1).collection.isArray
     /\ HasResult(x, 1)) =>
       LET step == TopStep(x, 1)
           n == Len(step.collection.items)
           m == Len(step.body)
           v == executions[x].stepResults[1].result
           fatal == FatalEntries(step, v.results)
       IN /\ v.kind = "forEach" /\ v.total = n
          /\ \A e \in 1..Len(v.results) : v.results[e].stepIndex = (e - 1) \div m
          /\ IF fatal # {}
               THEN LET e == CHOOSE a \in fatal : \A b \in fatal : a <= b
                    IN /\ e = Len(v.results)
                       /\ v.count = v.results[e].stepIndex
                       /\ v.error = v.results[e].error
                       /\ v.error \notin {"absent", "null"}
               ELSE /\ v.count = n
                    /\ v.error = "absent"
                    /\ Len(v.results) = n * m

(* a forEach over two items with a body of two steps: the first step       *)
(* completed on both items and the required second step failed on the      *)
(* second item (index 1)                                                   *)
C15_Witness ==
  \E x \in ExecutionIds :
    /\ executions[x].pc = "done" /\ HasResult(x, 1)
    /\ TopStep(x, 1).action = "forEach"
    /\ Len(TopStep(x, 1).collection.items) = 2
    /\ Len(TopStep(x, 1).body) = 2
    /\ LET v == executions[x].stepResults[1].result
       IN /\ Len(v.results) = 4
          /\ v.results[4].status = "failed" /\ v.results[3].status = "completed"
          /\ v.count = 1 /\ v.total = 2 /\ v.error = ExecutorError

(* the activations of handleLoop in progress *)
LoopFrames(x) ==
  {d \in 1..Depth(x) : executions[x].stack[d].kind = "loop"}

(* C16: a loop with count c runs its body at most c times; an executor     *)
(* called as a body step in iteration k is given _index = k and            *)
(* _iteration = k + 1; and no iteration starts after a non-optional body   *)
(* step has failed or after breakCondition was true at the end of an       *)
(* iteration.                                                              *)
C16_LoopIterations ==
  [][\A x \in ExecutionIds :
       /\ \A d \in LoopFrames(x) :
            LET f == executions[x].stack[d]
            IN /\ f.i <= f.n
               /\ \A e \in 1..Len(f.results) : f.results[e].stepIndex < f.n
               /\ (Depth(x) = d /\ executions'[x].pc = "body"
                   /\ executions[x].pc # "body") =>
                     /\ executions[x].stack[d].i < f.n
                     /\ FatalEntries(f, f.results) = {}
               /\ (Depth(x) = d /\ executions[x].pc = "iterEnd" /\ Breaks(f)) =>
                     executions'[x].pc = "return"
       /\ (executions'[x].invoked # executions[x].invoked
           /\ TopFrame(x).kind = "loop") =>
             LET call == executions'[x].lastCall
             IN /\ call.params.index = <<ToString(TopFrame(x).i)>>
                /\ call.params.iteration = <<ToString(TopFrame(x).i + 1)>>]_vars

(* C17: a parallel step starts each of its n sub-steps exactly once, also  *)
(* after a sibling has failed; it returns only when all n have finished;   *)
(* and its result has total = n and completed + failed = n.                *)
C17_ParallelRunsAllBranches ==
  \A x \in ExecutionIds :
    /\ \A d \in 1..Depth(x) :
         LET f == executions[x].stack[d]
         IN f.kind = "parallel" =>
              /\ \A k \in 1..Len(f.branches) :
                   /\ f.branches[k].starts <= 1
                   /\ f.branches[k].starts = 1 <=> f.branches[k].pc # "new"
              /\ executions[x].pc \in {"join", "return"} =>
                   \A k \in 1..Len(f.branches) : f.branches[k].starts = 1
              /\ executions[x].pc = "return" =>
                   /\ \A k \in 1..Len(f.branches) :
                        f.branches[k].pc \in {"completed", "failed"}
                   /\ executions[x].ret.total = Len(f.body)
                   /\ executions[x].ret.completed + executions[x].ret.failed
                        = Len(f.body)
    /\ (/\ executions[x].steps # <<>>
        /\ TopStep(x, 1).action = "parallel"
        /\ HasResult(x, 1)) =>
         LET v == executions[x].stepResults[1].result
             n == Len(TopStep(x, 1).steps)
         IN /\ v.kind = "parallel"
            /\ v.total = n /\ Len(v.results) = n
            /\ v.completed + v.failed = n
            /\ \A k \in 1..n : v.results[k].status \in {"completed", "failed"}

(* a parallel step of two executor sub-steps has returned: the first       *)
(* sub-step failed when it was started, the second was still started and   *)
(* completed                                                               *)
C17_Witness ==
  \E x \in ExecutionIds :
    /\ executions[x].pc = "done" /\ HasResult(x, 1)
    /\ TopStep(x, 1).action = "parallel"
    /\ Len(TopStep(x, 1).steps) = 2
    /\ executions[x].invoked = 2
    /\ LET v == executions[x].stepResults[1].result
       IN /\ v.total = 2 /\ v.completed = 1 /\ v.failed = 1
          /\ v.results[1].status = "failed" /\ v.results[1].error = ExecutorError
          /\ v.results[2].status = "completed"

----------------------------------------------------------------------------
(*                     Properties of evaluateCondition                     *)

(* the condition after variable interpolation *)
Resolved ==
  resolveValue(condition.text, [NoVariables EXCEPT !["x"] = condition.x], <<"null">>)

(* the places <<k, o>> where the operator Comparisons[o] stands in s, and   *)
(* those of them that are not part of a longer operator                     *)
Occurrences(s) ==
  {occ \in (1..Len(s)) \X (1..Len(Comparisons)) :
     StartsAt(s, Comparisons[occ[2]], occ[1])}

Span(occ) == occ[1]..(occ[1] + Len(Comparisons[occ[2]]) - 1)

Operators(s) ==
  {a \in Occurrences(s) :
     ~\E b \in Occurrences(s) : Span(a) \subseteq Span(b) /\ Span(a) # Span(b)}

(* what the operator says of two texts: equality of the texts, order of    *)
(* the numbers they denote, or one being part of the other                 *)
OperatorHolds(op, l, r) ==
  LET numbers == ~Number(l).nan /\ ~Number(r).nan
  IN CASE op \in {<<"=", "=", "=">>, <<"=", "=">>} -> l = r
       [] op \in {<<"!", "=", "=">>, <<"!", "=">>} -> l # r
       [] op = <<">", "=">> -> numbers /\ Number(l).n >= Number(r).n
       [] op = <<"<", "=">> -> numbers /\ Number(l).n <= Number(r).n
       [] op = <<">">> -> numbers /\ Number(l).n > Number(r).n
       [] op = <<"<">> -> numbers /\ Number(l).n < Number(r).n
       [] op = <<"contains">> ->
            \E k \in 0..(Len(l) - Len(r)) : \A j \in 1..Len(r) : l[k + j] = r[j]
       [] op = <<"startsWith">> ->
            Len(r) <= Len(l) /\ \A j \in 1..Len(r) : l[j] = r[j]
       [] op = <<"endsWith">> ->
            Len(r) <= Len(l) /\ \A j \in 1..Len(r) : l[Len(l) - Len(r) + j] = r[j]

(* C18: on a string that after interpolation is 'L op R' with exactly one  *)
(* recognized operator, evaluateCondition returns what that operator says  *)
(* of the trimmed L and R; on a string with no recognized operator it      *)
(* returns false exactly when the resolved string is empty, 'false' or     *)
(* '0'.                                                                    *)
C18_ConditionEvaluation ==
  conditionResult.done =>
    /\ Cardinality(Operators(Resolved)) = 1 =>
         LET occ == CHOOSE a \in Operators(Resolved) : TRUE
             op == Comparisons[occ[2]]
             l == Trim(SubSeq(Resolved, 1, occ[1] - 1))
             r == Trim(SubSeq(Resolved, occ[1] + Len(op), Len(Resolved)))
         IN conditionResult.value = OperatorHolds(op, l, r)
    /\ Occurrences(Resolved) = {} =>
         (conditionResult.value <=> Resolved \notin {<<>>, <<"false">>, <<"0">>})

(* '{{x}} == done' was evaluated with x = 'done', and is true *)
C18_Witness ==
  /\ condition.text = <<Ref("x"), " ", "=", "=", " ", "done">>
  /\ condition.x = Str(<<"done">>)
  /\ conditionResult.done /\ conditionResult.value

----------------------------------------------------------------------------
(*                    Properties of SelectorEngine.find                    *)

(* no strategy returns an element for the descriptor, whatever is left of  *)
(* the page                                                                *)
NoStrategyMatches(descriptor) ==
  \A s \in Strategies, dom \in SUBSET Elements :
    tryStrategy(s, descriptor, dom) = Null

(* the call went through every strategy in each of its attempts *)
TriedAll(call) ==
  /\ call.attempt = call.retries - 1
  /\ call.index = Len(strategies)

(* C19: find on a descriptor that no strategy can match returns null and   *)
(* never throws, whichever strategies throw: the call is never rejected,   *)
(* and when it has returned it has returned null, after every strategy was *)
(* tried in every attempt (a throwing strategy is skipped and the          *)
(* remaining ones are still tried).                                        *)
C19_FindReturnsNullNeverThrows ==
  \A c \in FindIds :
    NoStrategyMatches(finds[c].descriptor) =>
      /\ finds[c].pc # "rejected"
      /\ finds[c].pc = "returned" =>
           /\ finds[c].result = Null
           /\ ~finds[c].fromCache
           /\ TriedAll(finds[c])

(* C20: a call of find with strict = true never returns an element whose   *)
(* confidence for the call's descriptor is below the threshold, whether    *)
(* the element comes from a strategy or from the cache, and whatever calls *)
(* of find were made before.                                               *)
C20_StrictReturnsConfident ==
  \A c \in FindIds :
    (finds[c].strict /\ finds[c].pc = "returned" /\ finds[c].result # Null)
      => ReachesThreshold(calculateConfidence(finds[c].result,
                                              finds[c].descriptor))

(* the call has returned or thrown *)
HasSettled(c) == c \in FindIds /\ finds[c].pc \in SettledPc

(* C21: of two consecutive calls of find with the same descriptor on an    *)
(* unchanged page, the first of which returned an element, the second      *)
(* returns that element from the cache: it calls no strategy, and so       *)
(* records no success (only an accepted strategy result is recorded).      *)
C21_SecondCallComesFromCache ==
  \A c \in FindIds :
    ( /\ HasSettled(c + 1)
      /\ finds[c + 1].descriptor = finds[c].descriptor
      /\ finds[c].pc = "returned" /\ finds[c].result # Null )
    => /\ finds[c + 1].pc = "returned"
       /\ finds[c + 1].result = finds[c].result
       /\ finds[c + 1].fromCache

(* the element is one the descriptor names: it has the id, is selected by  *)
(* the selector and has the text, as far as the descriptor gives them      *)
IsNamedBy(e, descriptor) ==
  /\ descriptor.id # <<>> => Element(e).id = descriptor.id
  /\ descriptor.selector # <<>> =>
       Matches(e, ParseSelector(descriptor.selector))
  /\ descriptor.text # <<>> =>
       toLowerCase(trim(Element(e).textContent))
         = toLowerCase(trim(descriptor.text))

HasIdSelectorOrText(descriptor) ==
  descriptor.id # <<>> \/ descriptor.selector # <<>> \/ descriptor.text # <<>>

(* C25: on a static page, a call of find whose descriptor has an id, a     *)
(* selector or a text and names an element of the page, and in which no    *)
(* strategy threw, returns, once it has settled, an element whose          *)
(* confidence for the descriptor reaches the threshold.                    *)
C25_FindsMatchingElement ==
  \A c \in FindIds :
    ( /\ HasSettled(c)
      /\ ~finds[c].threw
      /\ HasIdSelectorOrText(finds[c].descriptor)
      /\ \E e \in connected : IsNamedBy(e, finds[c].descriptor) )
    => /\ finds[c].pc = "returned"
       /\ finds[c].result # Null
       /\ ReachesThreshold(calculateConfidence(finds[c].result,
                                               finds[c].descriptor))

(* the call that the step makes, if it makes one *)
CallMade == finds'[Len(finds')]

(* the entry the cache has under the key of the descriptor is usable: not  *)
(* older than the time to live, its element in the document and with the   *)
(* tag name and id the descriptor gives                                    *)
UsableEntry(entry, descriptor) ==
  /\ now - entry.timestamp <= CacheTTL
  /\ entry.element \in connected
  /\ descriptor.tagName # <<>> =>
       toLowerCase(Element(entry.element).tagName)
         = toLowerCase(descriptor.tagName)
  /\ descriptor.id # <<>> => Element(entry.element).id = descriptor.id

Position(ordered, s) == CHOOSE i \in 1..Len(ordered) : ordered[i] = s

(* a is a higher rate than b; a strategy without history has the rate 1/2  *)
HigherRate(learned, a, b) ==
  LET rate(s) == IF learned[s].attempts = 0
                   THEN [num |-> 1, den |-> 2]
                   ELSE [num |-> learned[s].successes,
                         den |-> learned[s].attempts]
  IN rate(a).num * rate(b).den > rate(b).num * rate(a).den

(* C23: the ordered strategy list a call of find uses is a permutation of  *)
(* the 8 strategies, none left out and none twice, in descending order of  *)
(* the success rate learned for the hostname, strategies of equal rate in  *)
(* the fixed order exact, css, xpath, text, aria, dataAttr, visual, fuzzy. *)
C23_StrategiesOrderedByRate ==
  [][ (Len(finds') = Len(finds) + 1 /\ CallMade.pc = "await") =>
        LET ordered == CallMade.orderedStrategies
        IN /\ Len(ordered) = Len(strategies)
           /\ \A s \in Strategies : \E i \in 1..Len(ordered) : ordered[i] = s
           /\ \A i, j \in 1..Len(ordered) :
                i < j =>
                  /\ ~HigherRate(learningData[Hostname], ordered[j], ordered[i])
                  /\ HigherRate(learningData[Hostname], ordered[i], ordered[j])
                       \/ Position(strategies, ordered[i])
                            < Position(strategies, ordered[j])
    ]_vars

(* a call whose list starts with fuzzy and visual, the two strategies that *)
(* had succeeded before it                                                 *)
C23_Witness ==
  \E c \in FindIds :
    /\ finds[c].pc = "await"
    /\ SubSeq(finds[c].orderedStrategies, 1, 3) = <<"visual", "fuzzy", "exact">>

(* C24: recording a success of a strategy never moves it to a later place  *)
(* in the ordered strategy list (so neither do N successes in a row),      *)
(* whatever was learned before.                                            *)
C24_SuccessNeverDemotes ==
  [][ \A s \in Strategies :
        learningData'[Hostname][s] # learningData[Hostname][s] =>
          Position(getOptimizedStrategies(learningData'[Hostname]), s)
            <= Position(getOptimizedStrategies(learningData[Hostname]), s)
    ]_vars

(* after three successes of fuzzy in a row it is first, with nothing else  *)
(* learned                                                                 *)
C24_Witness ==
  /\ learningData[Hostname]["fuzzy"].successes = 3
  /\ getOptimizedStrategies(learningData[Hostname])[1] = "fuzzy"

----------------------------------------------------------------------------
(*                  Properties of SelectorEngine.findAll                   *)

(* the confidence findAll computes for the i-th element it returned *)
ReturnedConfidence(i) ==
  calculateConfidence(allFound.returned[i], allFound.descriptor)

(* the elements a strategy that did not throw offers above the threshold *)
Offered(strategy) ==
  LET elements == tryStrategyAll(strategy, allFound.descriptor,
                                 allFound.page)
  IN {elements[k] : k \in {j \in 1..Len(elements) :
        ReachesThreshold(calculateConfidence(elements[j],
                                             allFound.descriptor))}}

(* C26: the list findAll returns has no element twice, is no longer than   *)
(* limit, holds only elements whose confidence for the descriptor reaches  *)
(* the threshold of 0.7, and is in non-increasing order of confidence;     *)
(* every strategy that did not throw contributes what it found above the   *)
(* threshold, whichever strategies threw, unless the limit was reached.    *)
C26_FindAllResult ==
  allFound.done =>
    LET returned == allFound.returned
        n == Len(returned)
    IN /\ \A i, j \in 1..n : i # j => returned[i] # returned[j]
       /\ n <= allFound.limit
       /\ \A i \in 1..n : ReachesThreshold(ReturnedConfidence(i))
       /\ \A i \in 1..(n - 1) :
            ReturnedConfidence(i) >= ReturnedConfidence(i + 1)
       /\ \A s \in Strategies \ allFound.throwing :
            \/ n = allFound.limit
            \/ \A e \in Offered(s) : \E i \in 1..n : returned[i] = e

(* a call in which a strategy threw and that returned two elements in      *)
(* another order than it found them in                                     *)
C26_Witness ==
  /\ allFound.done
  /\ allFound.throwing # {}
  /\ Len(allFound.returned) = 2
  /\ ReturnedConfidence(1) > ReturnedConfidence(2)
  /\ allFound.results[1].element = allFound.returned[2]

----------------------------------------------------------------------------
(*               Properties of the TaskPlanner progress callback           *)

FinishedStatus == {"completed", "failed", "skipped"}

(* call e of execute finishes its current step in this step of the         *)
(* behaviour: it leaves lines 2091-2100 or the catch of lines 2102-2112    *)
(* (the catch of what the callback itself threw is not counted again)      *)
StepFinishes(e) ==
  \/ execs[e].pc = "resolved" /\ execs'[e].pc # "resolved"
  \/ /\ execs[e].pc = "catch" /\ execs'[e].pc # "catch"
     /\ execs[e].err # CallbackError

(* C27: with a callback registered by onProgress, the callback is called   *)
(* exactly once, in the same synchronous block, when a step finishes,      *)
(* whether the step ends completed, failed or skipped, and it is called    *)
(* at no other time.                                                       *)
C27_ProgressCalledAfterEachStep ==
  [][onStepComplete # "null" =>
       /\ \A e \in ExecIds :
            StepFinishes(e) =>
              progressCalls' =
                Append(progressCalls,
                       [plan |-> execs[e].plan, index |-> execs[e].i - 1,
                        status |-> plans'[execs[e].plan]
                                     .steps[execs[e].i].status])
       /\ progressCalls' # progressCalls =>
            \E e \in ExecIds : StepFinishes(e)]_vars

----------------------------------------------------------------------------
(*                   Properties of IntentParser WAIT                       *)

(* C28: a WAIT command with the number N gets N milliseconds for the unit  *)
(* ms/milliseconds, N * 1000 for s/sec/seconds, N * 60000 for              *)
(* m/min/minutes, and seconds are assumed only without a unit and for a    *)
(* small N (below 100); a large N without a unit is in milliseconds.       *)
C28_WaitDurationByUnit ==
  waitCall.done =>
    LET n == waitCall.number
    IN /\ waitCall.unit \in MillisecondUnits => waitCall.duration = n
       /\ waitCall.unit \in SecondUnits => waitCall.duration = n * 1000
       /\ waitCall.unit \in MinuteUnits => waitCall.duration = n * 60000
       /\ waitCall.unit = <<>> =>
            waitCall.duration = IF n < 100 THEN n * 1000 ELSE n

----------------------------------------------------------------------------
(*                 Properties of WebSocket reconnection                    *)

(* every pending reconnect timer has the delay of its place in the run of  *)
(* attempts                                                                *)
ExponentialDelays ==
  \A i \in 1..Len(socket.timers) :
    socket.timers[i].delay = RECONNECT_DELAY * Power2(socket.timers[i].k)

(* C29: a reconnect attempt is scheduled with the delay 5000 ms * 2^k when *)
(* k attempts were scheduled before it since the last open (or manual      *)
(* reconnect), at most MAX_RECONNECT_ATTEMPTS attempts are scheduled       *)
(* without an open in between, every open sets the counter to 0, and at    *)
(* most one reconnect timer is pending at any time.                        *)
C29_ReconnectBackoff ==
  /\ [](/\ ExponentialDelays
        /\ socket.consecutive <= MAX_RECONNECT_ATTEMPTS
        /\ Len(socket.timers) <= 1)
  /\ [][socket.ws = "connecting" /\ socket'.ws = "open" =>
          socket'.reconnectAttempts = 0]_vars

----------------------------------------------------------------------------
(*                 Properties of AutoScraper.extractTable                  *)

(* the text of the header cell of column c *)
HeaderText(table, c) == trim(table.header[c])

(* no two header cells of the table have the same text *)
DistinctHeaders(table) ==
  \A c, d \in 1..Len(table.header) :
    c # d => HeaderText(table, c) # HeaderText(table, d)

(* C30: for a visible table with a header row of h header cells (of        *)
(* different texts) and r data rows, the extraction returns exactly r      *)
(* records, the i-th made from the i-th data row, each with the header     *)
(* texts as its keys and under each the value of the cell of that column.  *)
C30_TableRecordsKeyedByHeaders ==
  tableCall.done /\ DistinctHeaders(tableCall.table) =>
    LET table == tableCall.table
        data == tableCall.data
        h == Len(table.header)
    IN /\ Len(data) = Len(table.rows)
       /\ \A i \in 1..Len(data) :
            /\ DOMAIN data[i] = {HeaderText(table, c) : c \in 1..h}
            /\ \A c \in 1..h :
                 data[i][HeaderText(table, c)]
                   = extractCellValue(table.rows[i][c])

----------------------------------------------------------------------------
(*              Properties of an execution and its nested steps            *)

(* the failures of non-optional sub-steps among the results a loop,        *)
(* forEach or parallel step has recorded                                   *)
NestedFailures(step, v) ==
  IF step.action \in {"loop", "forEach"} THEN FatalEntries(step, v.results)
  ELSE IF step.action = "parallel"
    THEN {e \in 1..Len(v.results) :
            v.results[e].status = "failed" /\ ~step.steps[e].optional}
  ELSE {}

(* C31: an execution that execute returned as completed holds no failed    *)
(* result of a non-optional step, neither among its top-level step results *)
(* nor among the results recorded inside a loop, forEach or parallel step. *)
C31_CompletedHasNoRequiredFailure ==
  \A x \in ExecutionIds :
    (executions[x].pc = "done" /\ executions[x].status = "completed") =>
      \A k \in 1..Len(executions[x].stepResults) :
        LET r == executions[x].stepResults[k]
        IN /\ ~(r.status = "failed" /\ ~TopStep(x, k).optional)
           /\ NestedFailures(TopStep(x, k), r.result) = {}

(* one step of the call x of execute: a continuation the event loop runs,  *)
(* an executor promise that settles or a timer that fires                  *)
WfProgress(x) ==
  \/ WfLoopHead(x) \/ WfCallWait(x) \/ WfCallMissing(x) \/ WfCallThrows(x)
  \/ \E t \in SettleTimes : WfCallAwaits(x, t)
  \/ WfSettleResolve(x) \/ WfSettleReject(x) \/ WfSettleTimeout(x)
  \/ WfDelayDone(x) \/ WfStepOk(x) \/ WfStepCatch(x) \/ WfStepEnd(x)
  \/ WfFinish(x) \/ WfStatsSaved(x) \/ WfExecuteReturn(x)

(* the engine when every executor call settles or times out, every timer   *)
(* fires and every resumed continuation is run                             *)
EngineFairSpec ==
  /\ EngineOnlyInit /\ [][EngineNext]_vars
  /\ \A x \in 1..MaxWfExec : WF_vars(WfProgress(x))

WfReturned(x) == x \in WfExecIds /\ wexecs[x].pc \in {"done", "rejected"}

(* C32: every call of execute returns, and no step of an execution is      *)
(* attempted more than maxRetries + 1 times, retryOnError set or not.      *)
C32_ExecuteTerminates ==
  /\ [](\A x \in WfExecIds : wexecs[x].pc # "rejected" => 
          \A i \in 0..MaxSteps :
            AttemptsOf(wexecs[x], i) <= WfOf(x).settings.maxRetries + 1)
  /\ \A x \in 1..MaxWfExec : [](x \in WfExecIds => <>WfReturned(x))

(* a required step of a workflow with retryOnError failed and the call of  *)
(* execute has returned the failed execution                               *)
C32_Witness ==
  \E x \in WfExecIds :
    /\ wexecs[x].pc = "done" /\ wexecs[x].status = "failed"
    /\ WfOf(x).settings.retryOnError
    /\ \E k \in 1..Len(wexecs[x].stepResults) :
         StepFatal(wexecs[x].stepResults[k], WfOf(x).steps[k])

(* the call x of execute has not returned and its execution is running     *)
WfRunning(x) ==
  wexecs[x].pc \notin {"done", "rejected"} /\ wexecs[x].status = "running"

(* C33: whenever cancel() can be called (between two tasks) and some       *)
(* execution is running, the execution cancel() would mark as cancelled,   *)
(* this.activeWorkflow, is an execution that is running.                   *)
C33_CancelReachesRunning ==
  (turn = 0 /\ \E x \in WfExecIds : WfRunning(x)) =>
    (activeWorkflow # 0 /\ WfRunning(activeWorkflow))

(* the iterations of a loop whose body steps all ran, counted from the     *)
(* results of the body steps: one result per body step and iteration, the  *)
(* last one being the failure if the loop stopped at a failure             *)
CompletedIterations(step, v) ==
  IF FatalEntries(step, v.results) # {}
    THEN (Len(v.results) - 1) \div Len(step.body)
    ELSE Len(v.results) \div Len(step.body)

(* C37: the iterations field of the result of a loop step is the number of *)
(* iterations whose body ran to completion, whether the loop ended at its  *)
(* count, at a true breakCondition or at a failed non-optional body step.  *)
C37_IterationsAreCompletedIterations ==
  \A x \in ExecutionIds :
    (/\ executions[x].steps # <<>>
     /\ TopStep(x, 1).action = "loop"
     /\ TopStep(x, 1).body # <<>>
     /\ HasResult(x, 1)) =>
       LET v == executions[x].stepResults[1].result
       IN v.kind = "loop" /\ v.count = CompletedIterations(TopStep(x, 1), v)

----------------------------------------------------------------------------
(*                     Properties of TaskPlanner.getProgress               *)

(* C39: for every active plan, also one without steps, getProgress returns *)
(* an integer between 0 and 100, the rounded percentage of the steps whose *)
(* status is completed or skipped, and 100 when the plan is completed.     *)
C39_ProgressIsPercentage ==
  activePlan # 0 =>
    LET plan == plans[activePlan]
        done == Cardinality(ProgressSteps(plan))
    IN /\ ~getProgress.nan
       /\ getProgress.n \in 0..100
       /\ \A q \in 0..100 :
            (2 * Len(plan.steps) * q <= 200 * done + Len(plan.steps)
             /\ 200 * done + Len(plan.steps) < 2 * Len(plan.steps) * (q + 1))
              => getProgress.n = q
       /\ plan.status = "completed" => getProgress.n = 100

----------------------------------------------------------------------------
(*                 Properties of WorkflowEngine.resolveValue               *)

(* what the interpolation rule makes of one symbol of a string *)
InterpolatedSymbol(sym, variables) ==
  IF \E name \in VarNames : sym = Ref(name) /\ variables[name].t # "undefined"
    THEN ToStr(variables[CHOOSE name \in VarNames : sym = Ref(name)])
    ELSE <<sym>>

RECURSIVE Interpolated(_, _)
Interpolated(value, variables) ==
  IF value.t = "string"
    THEN Leaf("string", Flatten([k \in 1..Len(value.s) |->
                                   InterpolatedSymbol(value.s[k], variables)]))
  ELSE IF value.t \in {"array", "object"}
    THEN [value EXCEPT !.items = [k \in 1..Len(value.items) |->
                                    Interpolated(value.items[k], variables)]]
  ELSE value

RECURSIVE HasPlaceholder(_)
HasPlaceholder(value) ==
  \/ \E k \in 1..Len(value.s) :
       \E name \in VarNames \cup {"lastResult"} : value.s[k] = Ref(name)
  \/ \E k \in 1..Len(value.items) : HasPlaceholder(value.items[k])

(* C38: resolveValue does not throw; it returns the value with every       *)
(* {{name}} of every string in it, at any depth of arrays and plain        *)
(* objects, replaced by the variable of that name, and left as it is when  *)
(* there is no such variable; a value without placeholders is returned     *)
(* equal to the input; the input and the variables are not changed.        *)
C38_ResolveValueInterpolates ==
  resolveCall.done =>
    /\ resolveCall.result.t # "throw"
    /\ resolveCall.result = Interpolated(resolveCall.input, resolveCall.variables)
    /\ ~HasPlaceholder(resolveCall.input) => resolveCall.result = resolveCall.input
    /\ resolveCall.value = resolveCall.input
    /\ resolveCall.variables = resolveCall.variablesBefore

----------------------------------------------------------------------------
(*                 Properties of the WebSocket message queue               *)

TimesIn(message, s) == Cardinality({k \in 1..Len(s) : s[k] = message})

(* the messages of s are in the order in which sendToWebSocket was called  *)
(* with them, none twice                                                   *)
InCallOrder(s) == \A j, k \in 1..Len(s) : j < k => s[j].id < s[k].id

(* no message is lost or duplicated: every message is either queued or was *)
(* given to ws.send once; both in the order of the calls                   *)
NothingLostOrReordered ==
  /\ \A k \in 1..Len(outbox.made) :
       TimesIn(outbox.made[k], outbox.sent)
         + TimesIn(outbox.made[k], outbox.pendingCommands) = 1
  /\ InCallOrder(outbox.sent)
  /\ InCallOrder(outbox.pendingCommands)

SerialisableQueuedAreSent ==
  /\ NothingLostOrReordered
  /\ socket.ws = "open" =>
       \A k \in 1..Len(outbox.queued) :
         outbox.queued[k].serialisable =>
           TimesIn(outbox.queued[k], outbox.sent) = 1
  /\ \A k \in 1..Len(outbox.made) :
       ~outbox.made[k].serialisable =>
         TimesIn(outbox.made[k], outbox.pendingCommands) = 1

----------------------------------------------------------------------------
(*                  Properties of the resolution cache                     *)

(* the calls of find that put an element into the cache under this key *)
CachedBy(key) ==
  {b \in FindIds : /\ finds[b].cacheKey = key /\ ~finds[b].fromCache
                   /\ finds[b].pc = "returned" /\ finds[b].result # Null}

SameKeyFields(d1, d2) ==
  d1.selector = d2.selector /\ d1.text = d2.text /\ d1.id = d2.id

(* C34: a call of find that returns from the cache returns an entry that   *)
(* was cached by calls with the same selector, text and id: on one         *)
(* hostname, descriptors that differ in one of them share no entry.        *)
C34_CacheEntryPerDescriptor ==
  \A c \in FindIds :
    finds[c].fromCache =>
      \A b \in CachedBy(finds[c].cacheKey) :
        b < c => SameKeyFields(finds[b].descriptor, finds[c].descriptor)

(* the call c of find returns in this step, from its strategy loop *)
Returns(c) ==
  c \in FindIds /\ finds[c].pc = "await" /\ finds'[c].pc = "returned"

(* C35: a find that accepts a candidate adds one to successes and to        *)
(* attempts of the accepting strategy on the page's hostname, leaves every *)
(* other strategy and hostname record as it was, and leaves the record     *)
(* with 0 < successes <= attempts and the rate successes / attempts; a     *)
(* find that returns null or is served from the cache adds no cache entry  *)
(* and changes no learning record.                                         *)
C35_OnlyAcceptedFindsLearn ==
  [][/\ \A c \in FindIds :
          (Returns(c) /\ finds'[c].result # Null) =>
            LET s == finds[c].orderedStrategies[finds[c].index]
                before == learningData[Hostname][s]
                after == learningData'[Hostname][s]
            IN /\ after.successes = before.successes + 1
               /\ after.attempts = before.attempts + 1
               /\ \A h \in Hostnames, r \in Strategies :
                    (h # Hostname \/ r # s) =>
                      learningData'[h][r] = learningData[h][r]
               /\ 0 < after.successes /\ after.successes <= after.attempts
               /\ SuccessRate(learningData'[Hostname], s)
                    = [num |-> after.successes, den |-> after.attempts]
     /\ \A c \in 1..Len(finds') :
          (\/ Returns(c) /\ finds'[c].result = Null
           \/ c \notin FindIds /\ finds'[c].fromCache) =>
            /\ learningData' = learningData
            /\ cache' \subseteq cache]_vars

(* a find accepted a candidate and one success is recorded for its         *)
(* strategy; a later find was served from the cache                        *)
C35_Witness ==
  /\ \E c \in FindIds :
       /\ finds[c].pc = "returned" /\ ~finds[c].fromCache
       /\ finds[c].result # Null
       /\ learningData[Hostname][finds[c].orderedStrategies[finds[c].index]]
            = [successes |-> 1, attempts |-> 1]
  /\ \E c \in FindIds : finds[c].pc = "returned" /\ finds[c].fromCache

----------------------------------------------------------------------------
(*                     SelectorEngine.find: the retry loop                 *)

(* the passes call c has begun over its ordered strategies *)
Passes(c) == IF finds[c].trials = 0 THEN 0 ELSE finds[c].attempt + 1

(* call c went through every pass without accepting a candidate *)
Exhausted(c) ==
  /\ finds[c].attempt = finds[c].retries - 1
  /\ finds[c].index = Len(finds[c].orderedStrategies)
  /\ finds[c].trials = finds[c].retries * Len(strategies)

(* passes, trials and delays of call c are within what `retries` allows:   *)
(* the k-th delay is 500 ms * k, one delay after each failed pass but the  *)
(* last, and null is returned after the last pass only                     *)
WithinRetries(c) ==
  /\ Passes(c) <= finds[c].retries
  /\ finds[c].trials <= finds[c].retries * 8
  /\ finds[c].trials =
       IF finds[c].orderedStrategies = <<>> THEN 0
       ELSE finds[c].attempt * Len(strategies) + finds[c].index
  /\ Len(finds[c].waited) =
       finds[c].attempt + (IF finds[c].pc = "delay" THEN 1 ELSE 0)
  /\ \A k \in 1..Len(finds[c].waited) : finds[c].waited[k] = 500 * k
  /\ Len(finds[c].waited) <= finds[c].retries - 1
  /\ finds[c].pc = "delay" => finds[c].index = Len(finds[c].orderedStrategies)
  /\ (finds[c].pc = "returned" /\ ~finds[c].fromCache
        /\ finds[c].result = Null) => Exhausted(c)

(* a step of call c whose awaited strategy gave a candidate find accepts   *)
(* returns that candidate, and a call that has settled does nothing more   *)
StopsAtAccepted(c) ==
  /\ (finds[c].pc = "await" /\ Accepted(finds[c]) /\ finds'[c] # finds[c])
       => /\ finds'[c].pc = "returned"
          /\ finds'[c].result = finds[c].pending.element
          /\ finds'[c].trials = finds[c].trials
          /\ finds'[c].waited = finds[c].waited
  /\ finds[c].pc \in SettledPc => finds'[c] = finds[c]

(* call c of find has returned or thrown *)
FindSettled(c) == c \in FindIds /\ finds[c].pc \in SettledPc

(* C36: find makes at most `retries` passes over the ordered strategies    *)
(* (at most retries * 8 calls of tryStrategy), returns at the first        *)
(* candidate it accepts, waits 500 ms * k after the k-th failed pass and   *)
(* not after the last one, and every call settles: one that accepted       *)
(* nothing in any pass returns null.                                       *)
C36_FindTerminates ==
  /\ [](\A c \in FindIds : WithinRetries(c))
  /\ [][\A c \in FindIds : StopsAtAccepted(c)]_vars
  /\ \A c \in 1..MaxFinds :
       [](c \in FindIds => <>FindSettled(c))

(* a call with retries = 3 waited 500 ms and then 1000 ms, tried all 24    *)
(* strategies and returned null, and another call returned the candidate   *)
(* of its first strategy                                                   *)
C36_Witness ==
  /\ \E c \in FindIds :
       /\ finds[c].retries = 3 /\ finds[c].pc = "returned"
       /\ finds[c].result = Null /\ finds[c].trials = 24
       /\ finds[c].waited = <<500, 1000>>
  /\ \E c \in FindIds :
       /\ finds[c].pc = "returned" /\ ~finds[c].fromCache
       /\ finds[c].result # Null /\ finds[c].trials = 1

=============================================================================
